---- MODULE Spec2Model ----
(***************************************************************************)
(* Flow Orchestration Engine of route.py: the per-role mailbox broker, the *)
(* Response Handler with its noise filter, the Pipeline Segment Tracker,   *)
(* the Rule Expansion Unit and the run-scoped event log.                   *)
(*                                                                         *)
(* The server is Flask with threaded=True (route.py:1555): every request   *)
(* runs in its own thread over the module-level registries.  A request is  *)
(* modelled as a thread that walks through its handler one shared-state    *)
(* operation at a time.  Spec interleaves the threads freely; SpecSeq runs *)
(* one request to completion before the next one starts.                   *)
(***************************************************************************)
EXTENDS Integers, Sequences, FiniteSets, TLC

(* ------------------------------ bounds -------------------------------- *)

\* Total number of requests issued in one behaviour.
MaxRequests == 3

\* Requests issued in one behaviour of the Response Handler's specification.
MaxResponses == 2

\* Capacities of the three ring buffers, scaled down from 5000, 20000, 2000.
EVENT_LOG_MAX == 4

RUN_EVENTS_MAX == 5

PIPELINE_SEGMENTS_MAX == 2

\* Requests issued in one behaviour of the walkie relay's specifications.
MaxWalkieRequests == 4

\* Walkie requests per behaviour when sessions may outlive their TTL.
MaxExpiryRequests == 3

\* Walkie requests per behaviour when a signal queue is filled beyond its capacity.
MaxQueueRequests == 6

\* Walkie requests per behaviour when two threads serve them at once.
MaxLockRequests == 5

\* Sessions created in one behaviour.
MaxSessions == 2

\* Signals pushed in one behaviour of the relay whose transmitter pulls for ever.
MaxLivePushes == 1

\* Calls of _next_auto_run_id in one behaviour of the concurrent allocator.
MaxAllocs == 4

\* Calls of _log_event in one behaviour of the concurrent run log.
MaxRecords == 3

\* Calls of _pipeline_upsert_segment in one behaviour of the concurrent tracker.
MaxUpserts == 3

\* Length of the texts the noise filter is tried on.
MaxTextLen == 5

\* Pair codes a create samples before it gives up, scaled down from 40.
PAIR_CODE_ATTEMPTS == 2

\* The clock stops here.
MaxClock == 4

\* Session lifetime in clock ticks, scaled down from max(10000, TTL * 1000) ms.
WALKIE_SESSION_TTL == 2

\* Capacity of a signal queue, scaled down from 300.
WALKIE_MAX_SIGNAL_QUEUE == 2

\* The clamp of a pull's timeout in clock ticks, scaled down from 100 and 25000 ms.
WALKIE_PULL_TIMEOUT_MIN == 1

WALKIE_PULL_TIMEOUT_MS_MAX == 2

Threads == {"t1", "t2"}

(* ------------------------------ values -------------------------------- *)

Roles == {"ai", "teacher", "class", "stt"}

\* Identifiers are an alphabetic prefix and a number: "log3", "seg-17".
Id(p, k) == [pfx |-> p, n |-> k]

NoId == Id("", 0)

NoRun == NoId

NoSeg == NoId

LogId(k) == Id("log", k)

\* str.lower() on the identifier prefixes and levels the model uses.
LowerStr(s) ==
    CASE s = "KickStart" -> "kickstart"
      [] s = "RunA" -> "runa"
      [] s = "runA" -> "runa"
      [] s = "LOG" -> "log"
      [] s = "ERROR" -> "error"
      [] OTHER -> s

\* Characters of the texts the model uses, by class.
LowerLetters == {"a", "b", "c", "e", "h", "k", "l", "o", "r", "t"}

UpperLetters == {"A", "B", "H", "K", "O"}

Digits == {"1"}

Whitespace == {" "}

\* The symbols of the regular expression [.?!,\-_/\\*~\s] without whitespace.
NoiseSymbols == {".", "?", "!", ",", "-", "_", "/", "\\", "*", "~"}

LowerChar(c) ==
    CASE c = "A" -> "a"
      [] c = "B" -> "b"
      [] c = "H" -> "h"
      [] c = "K" -> "k"
      [] c = "O" -> "o"
      [] OTHER -> c

\* str.lower()
Lower(t) == [i \in 1..Len(t) |-> LowerChar(t[i])]

RECURSIVE LStrip(_)
LStrip(t) == IF t # <<>> /\ Head(t) \in Whitespace THEN LStrip(Tail(t)) ELSE t

RECURSIVE RStrip(_)
RStrip(t) ==
    IF t # <<>> /\ t[Len(t)] \in Whitespace THEN RStrip(SubSeq(t, 1, Len(t) - 1)) ELSE t

\* str.strip()
Strip(t) == RStrip(LStrip(t))

\* re.sub(r"[^...]+", "", t): keep the characters of the set keep.
RECURSIVE Keep(_, _)
Keep(t, keep) ==
    IF t = <<>> THEN <<>>
    ELSE IF Head(t) \in keep THEN <<Head(t)>> \o Keep(Tail(t), keep)
    ELSE Keep(Tail(t), keep)

Range(f) == {f[x] : x \in DOMAIN f}

Put(f, k, v) == [x \in DOMAIN f \cup {k} |-> IF x = k THEN v ELSE f[x]]

Remove(f, k) == [x \in DOMAIN f \ {k} |-> f[x]]

EmptyMap == [x \in {} |-> NoId]

\* del q[: len(q) - cap]
TrimFront(q, cap) == IF Len(q) > cap THEN SubSeq(q, Len(q) - cap + 1, Len(q)) ELSE q

(* ---------------------------- noise filter ---------------------------- *)

\* A filter that lets a single character through.
looks_like_noise_no_short(text) ==
    LET t == Lower(Strip(text))
        alnum == Keep(t, LowerLetters \cup Digits)
    IN  IF t = <<>> THEN TRUE
        ELSE IF alnum = <<>> THEN TRUE
        ELSE IF Cardinality(Range(alnum)) = 1 /\ Len(alnum) >= 5 THEN TRUE
        ELSE IF \A i \in 1..Len(t) : t[i] \in NoiseSymbols \cup Whitespace THEN TRUE
        ELSE FALSE

looks_like_noise(text) ==
    LET t == Lower(Strip(text))
        alnum == Keep(t, LowerLetters \cup Digits)
    IN  IF t = <<>> THEN TRUE
        ELSE IF Len(t) < 2 THEN TRUE
        ELSE IF alnum = <<>> THEN TRUE
        ELSE IF Cardinality(Range(alnum)) = 1 /\ Len(alnum) >= 5 THEN TRUE
        ELSE IF \A i \in 1..Len(t) : t[i] \in NoiseSymbols \cup Whitespace THEN TRUE
        ELSE FALSE

\* re.sub(r"[^a-z0-9_]+", "", raw.strip().lower())
safe_book_key(raw) == Keep(Lower(Strip(raw)), LowerLetters \cup Digits \cup {"_"})

(* ------------------------------- state -------------------------------- *)

VARIABLES
    message_queues_by_role,   \* role -> sequence of envelopes
    event_log,                \* the global debug ring buffer
    run_events_by_id,         \* run id -> that run's events
    run_files_by_id,          \* run id -> path of its document
    run_docs,                 \* the log directory: path -> persisted document
    auto_run_next_idx,        \* 0 until the first allocation scans the directory
    legacy_run_id_map,        \* legacy id -> the log<N> it was remapped to
    audio_bridge_ready_logged, \* "audio_bridge_ready" has been logged
    walkie_sessions_by_id,    \* session id -> session
    walkie_session_id_by_pair_code, \* pair code -> session id
    walkie_lock,              \* "free" or the thread holding _walkie_lock
    walkie_tls_ready,         \* cert and key exist and the HTTPS mirror serves
    https_mirror,             \* the mirror's worker thread: "starting", "serving", "failed"
    now,                      \* the clock
    walkie_counter,           \* stands for the randomness of session ids and tokens
    walkie_issued,            \* every session id, pair code and token handed out so far
    walkie_pending,           \* (session, role) -> signals accepted since its last delivery
    walkie_closed,            \* sessions (with their pair codes) closed by a successful close
    pipeline_segments_by_id,  \* segment id -> row
    pipeline_segment_order,   \* segment ids, oldest first
    pipeline_last_ids,        \* status -> id of the segment last seen in it
    id_counter,               \* stands for the clock and random suffix of _make_id
    pc,                       \* thread -> position in its handler
    req,                      \* thread -> the request's arguments and locals
    nreq,                     \* requests started so far
    enq_count,                \* envelopes appended so far (tags them)
    delivered,                \* tags of the envelopes returned by completed drains
    since_drain,              \* role -> envelopes sent to it since its last completed drain
    resolutions,              \* (caller's run id, resolved run id) pairs seen so far
    omitted_allocs,           \* run ids assigned to requests that named none
    first_idx,                \* the index the first allocation started from (0: none yet)
    last_done                 \* the request that completed last

vars ==
    <<message_queues_by_role, event_log, run_events_by_id, run_files_by_id, run_docs,
      auto_run_next_idx, legacy_run_id_map, audio_bridge_ready_logged,
      pipeline_segments_by_id,
      pipeline_segment_order, pipeline_last_ids, id_counter, pc, req, nreq, enq_count,
      delivered, since_drain, resolutions, omitted_allocs, first_idx, last_done,
      walkie_sessions_by_id, walkie_session_id_by_pair_code, walkie_lock,
      walkie_tls_ready, https_mirror, now, walkie_counter, walkie_issued,
      walkie_pending, walkie_closed>>

(* ---------------------------- run event log --------------------------- *)

\* The run-log registries as one value, threaded through the helpers below.
LogState ==
    [event_log |-> event_log,
     run_events_by_id |-> run_events_by_id,
     run_files_by_id |-> run_files_by_id,
     run_docs |-> run_docs,
     auto_run_next_idx |-> auto_run_next_idx,
     legacy_run_id_map |-> legacy_run_id_map]

SetLogState(L) ==
    /\ event_log' = L.event_log
    /\ run_events_by_id' = L.run_events_by_id
    /\ run_files_by_id' = L.run_files_by_id
    /\ run_docs' = L.run_docs
    /\ auto_run_next_idx' = L.auto_run_next_idx
    /\ legacy_run_id_map' = L.legacy_run_id_map

\* Event names are their words: "student_response_sent" is <<"student","response","sent">>.
Entry(level, event, run) == [level |-> level, event |-> event, run |-> run]

\* re.sub(r"[^a-z0-9_-]+", "", raw.strip().replace(" ", "_").lower()) or "run"
safe_filename(rid) == IF rid = NoId THEN Id("run", 0) ELSE Id(LowerStr(rid.pfx), rid.n)

\* A scan that forgets the "+ 1".
scan_highest_log_index(docs) ==
    LET idxs == {p.n : p \in {q \in DOMAIN docs : q.pfx = "log"}}
    IN  IF idxs = {} THEN 0 ELSE CHOOSE m \in idxs : \A k \in idxs : k <= m

\* Highest N over the files named log<N>.json (or log<N>-...), plus one.
scan_next_log_index(docs) ==
    LET idxs == {p.n : p \in {q \in DOMAIN docs : q.pfx = "log"}}
    IN  IF idxs = {} THEN 1 ELSE (CHOOSE m \in idxs : \A k \in idxs : k <= m) + 1

next_auto_run_id(L) ==
    LET idx == IF L.auto_run_next_idx = 0 THEN scan_next_log_index(L.run_docs)
               ELSE L.auto_run_next_idx
    IN  [rid |-> LogId(idx), L |-> [L EXCEPT !.auto_run_next_idx = idx + 1]]

IsLegacy(rid) == LowerStr(rid.pfx) = "kickstart"

\* A normaliser that allocates a sequential id whatever the caller named.
safe_run_id_always_new(L, run_id) == next_auto_run_id(L)

\* A normaliser that forgets to record the remapping of a legacy id.
safe_run_id_unrecorded(L, run_id) ==
    IF run_id # NoRun /\ ~IsLegacy(run_id) THEN [rid |-> run_id, L |-> L]
    ELSE next_auto_run_id(L)

safe_run_id(L, run_id) ==
    IF run_id # NoRun /\ ~IsLegacy(run_id) THEN [rid |-> run_id, L |-> L]
    ELSE IF run_id # NoRun THEN
        IF run_id \in DOMAIN L.legacy_run_id_map
        THEN [rid |-> L.legacy_run_id_map[run_id], L |-> L]
        ELSE LET a == next_auto_run_id(L)
             IN  [rid |-> a.rid,
                  L |-> [a.L EXCEPT !.legacy_run_id_map = Put(@, run_id, a.rid)]]
    ELSE next_auto_run_id(L)

\* The path is cached per run id; log<N> ids get log<N>.json.
run_file_for_id(L, run_id) ==
    IF run_id \in DOMAIN L.run_files_by_id THEN L.run_files_by_id[run_id]
    ELSE safe_filename(run_id)

IsFailureSignal(event) ==
    \/ \E i \in 1..Len(event) : event[i] = "failed"
    \/ event # <<>> /\ event[Len(event)] = "error"

\* A rollup that looks at the levels only.
RunStatusByLevel(events) ==
    IF \E i \in 1..Len(events) : LowerStr(events[i].level) = "error"
    THEN "failed"
    ELSE IF \E i \in 1..Len(events) : LowerStr(events[i].level) \in {"warn", "warning"}
    THEN "warning"
    ELSE "ok"

\* The status of _flush_run_to_disk: levels are counted in lower case.
RunStatus(events) ==
    IF \E i \in 1..Len(events) :
           LowerStr(events[i].level) = "error" \/ IsFailureSignal(events[i].event)
    THEN "failed"
    ELSE IF \E i \in 1..Len(events) : LowerStr(events[i].level) \in {"warn", "warning"}
    THEN "warning"
    ELSE "ok"

flush_run_to_disk(L, run_id) ==
    LET events == L.run_events_by_id[run_id]
        path == run_file_for_id(L, run_id)
        out == [run_id |-> run_id, status |-> RunStatus(events), events |-> events]
    IN  IF events = <<>> THEN L
        ELSE [L EXCEPT !.run_files_by_id = Put(@, run_id, path),
                       !.run_docs = Put(@, path, out)]

append_run_event(L, run_id, entry) ==
    LET old == IF run_id \in DOMAIN L.run_events_by_id
               THEN L.run_events_by_id[run_id] ELSE <<>>
        bucket == TrimFront(Append(old, entry), RUN_EVENTS_MAX)
    IN  flush_run_to_disk([L EXCEPT !.run_events_by_id = Put(@, run_id, bucket)], run_id)

\* run is data["flow_run_id"] as the caller passed it (NoRun when absent).
log_event(L, event, level, run) ==
    LET entry == Entry(level, event, run)
        L1 == [L EXCEPT !.event_log = TrimFront(Append(@, entry), EVENT_LOG_MAX)]
    IN  IF run = NoRun THEN L1
        ELSE LET r == safe_run_id(L1, run) IN append_run_event(r.L, r.rid, entry)

(* ------------------------------ messages ------------------------------ *)

Meta(run, seg, role, page, audio, injected, finalized, by) ==
    [flow_run_id |-> run, segment_id |-> seg, source_role |-> role, source_page |-> page,
     audio_ref |-> audio, injected |-> injected, finalized |-> finalized,
     injected_by |-> by]

\* A message without a "meta" member.
EmptyMeta == Meta(NoRun, NoSeg, "none", "none", "none", FALSE, FALSE, "none")

Msg(id, kind, text, book, pkg, noreturn, meta) ==
    [id |-> id, kind |-> kind, text |-> text, book_type |-> book, package_id |-> pkg,
     no_return_expected |-> noreturn, meta |-> meta]

NoMsg == Msg(NoId, "none", <<>>, <<>>, NoId, FALSE, EmptyMeta)

\* tag numbers the envelope objects; it is not a member of the envelope.
Envelope(sender, message, tag) == [from |-> sender, message |-> message, tag |-> tag]

Tags(q) == [i \in 1..Len(q) |-> q[i].tag]

\* A mailbox that puts the newest envelope first.
QueueAppendFront(q, env) == <<env>> \o q

\* message_queues_by_role[receiver].append({...})
QueueAppend(q, env) == Append(q, env)

\* messages = message_queues_by_role[receiver].copy()
QueueCopy(q) == q

\* message_queues_by_role[receiver].clear()
QueueClear(q) == <<>>

\* _make_id(prefix): unique by its millisecond clock and random suffix.
make_id(prefix, counter) == Id(prefix, counter + 1)

(* --------------------------- segment tracker -------------------------- *)

PipelineState ==
    [by_id |-> pipeline_segments_by_id, order |-> pipeline_segment_order,
     last_ids |-> pipeline_last_ids]

SetPipelineState(P) ==
    /\ pipeline_segments_by_id' = P.by_id
    /\ pipeline_segment_order' = P.order
    /\ pipeline_last_ids' = P.last_ids

RowFields ==
    {"segment_id", "flow_run_id", "text", "audio_ref", "status", "source_role",
     "source_page", "injected", "sent_status"}

NewRow(sid) ==
    [segment_id |-> sid, flow_run_id |-> NoRun, text |-> <<>>, audio_ref |-> "none",
     status |-> "created", source_role |-> "none", source_page |-> "none",
     injected |-> FALSE, sent_status |-> "none"]

\* "if v is not None": the keyword arguments that carry None are skipped.
IsNoneValue(k, v) ==
    CASE k = "flow_run_id" -> v = NoRun
      [] k \in {"audio_ref", "source_role", "source_page"} -> v = "none"
      [] OTHER -> FALSE

ApplyUpdates(row, updates) ==
    [k \in RowFields |->
        IF k \in DOMAIN updates /\ ~IsNoneValue(k, updates[k]) THEN updates[k] ELSE row[k]]

TrackedStatuses == {"captured", "transcribed", "sent", "dropped"}

pipeline_upsert_segment(P, sid, updates) ==
    IF sid = NoSeg THEN P
    ELSE
        LET fresh == sid \notin DOMAIN P.by_id
            order1 == IF fresh THEN Append(P.order, sid) ELSE P.order
            evict == fresh /\ Len(order1) > PIPELINE_SEGMENTS_MAX
            stale == Head(order1)
            order2 == IF evict THEN Tail(order1) ELSE order1
            by1 == IF fresh THEN Put(P.by_id, sid, NewRow(sid)) ELSE P.by_id
            by2 == IF evict THEN Remove(by1, stale) ELSE by1
            row == ApplyUpdates(by1[sid], updates)
            by3 == IF sid \in DOMAIN by2 THEN Put(by2, sid, row) ELSE by2
            last1 == IF row.status \in TrackedStatuses
                     THEN [P.last_ids EXCEPT ![row.status] = sid] ELSE P.last_ids
            last2 == IF row.sent_status \in TrackedStatuses
                     THEN [last1 EXCEPT ![row.sent_status] = sid] ELSE last1
        IN  [by_id |-> by3, order |-> order2, last_ids |-> last2]

\* The status a segment has in the tracker ("absent" when it has no row).
StatusOf(P, sid) == IF sid \in DOMAIN P.by_id THEN P.by_id[sid].status ELSE "absent"

(* ------------------------------ requests ------------------------------ *)

Result(code, error, dropped, seg, run, audio, pkg) ==
    [code |-> code, error |-> error, dropped |-> dropped, segment_id |-> seg,
     flow_run_id |-> run, audio_ref |-> audio, package_id |-> pkg]

NoResult == Result(0, "none", FALSE, NoSeg, NoRun, "none", NoId)

Ok200 == Result(200, "none", FALSE, NoSeg, NoRun, "none", NoId)

Error400(error) == Result(400, error, FALSE, NoSeg, NoRun, "none", NoId)

\* A request value as the client wrote it: text, possibly inside whitespace.
Raw(text, pad) == [text |-> text, pad |-> pad]

\* str(x or "").strip()
StripRaw(x) == x.text

\* str(x) is the stored key only when the client wrote no whitespace around it.
StrRawIs(x, key) == ~x.pad /\ x.text = key

NoRaw == Raw(NoId, FALSE)

\* str(x or "").strip().lower() of a role or signal type: the words are kept in
\* lower case, with the client's capitals and padding on the side.
RawWord(word, upper, pad) == [text |-> word, upper |-> upper, pad |-> pad]

StripLower(x) == x.text

\* What the authentication of a request saw: the session it looked up.
NoAuth ==
    [done |-> FALSE, found |-> FALSE, closed |-> FALSE, expired |-> FALSE,
     receiver_token |-> NoId, transmitter_token |-> NoId]

\* The arguments and locals of a walkie request.
NoWalkieArgs ==
    [session_id |-> NoRaw, token |-> NoRaw, to |-> RawWord("", FALSE, FALSE),
     type |-> RawWord("", FALSE, FALSE), pair_code |-> Raw("", FALSE),
     timeout_ms |-> [ok |-> TRUE, ms |-> 0], start |-> 0, deadline |-> 0,
     now_ms |-> 0, flow_run_id |-> NoRun,
     role |-> "none", waited |-> FALSE, auth |-> NoAuth, before |-> EmptyMap,
     prev_token |-> NoId, first_ok |-> FALSE, expected |-> <<>>, at |-> 0,
     closed0 |-> {}, role0 |-> "none", draws |-> <<>>]

WalkieResult(code, error, session_id, pair_code, token, role, messages) ==
    [code |-> code, error |-> error, session_id |-> session_id, pair_code |-> pair_code,
     token |-> token, role |-> role, messages |-> messages]

NoWalkieResult == WalkieResult(0, "none", NoId, "", NoId, "none", <<>>)

WalkieError(code, error) == WalkieResult(code, error, NoId, "", NoId, "none", <<>>)

\* What the relay has handed out: session ids, pair codes and tokens, each session's
\* expires_at, pair code and receiver token, the session each token was made for,
\* and the transmitter tokens that a later join replaced.
NothingIssued ==
    [sessions |-> {}, codes |-> {}, tokens |-> {}, expires_at |-> EmptyMap,
     pair_code |-> EmptyMap, receiver |-> EmptyMap, owner |-> EmptyMap,
     replaced |-> {}]

\* A thread's request: its arguments, the handler's locals, and what it has observed.
IdleReq ==
    [op |-> "none", sender |-> "none", receiver |-> "none", message |-> NoMsg,
     raw_run |-> NoRun, injected_by |-> "none", text |-> <<>>, segment_id |-> NoSeg,
     flow_run_id |-> NoRun, audio_ref |-> "none", injected |-> FALSE,
     capture |-> "none", payload |-> NoMsg, package_id |-> NoId, book |-> <<>>,
     messages |-> <<>>, result |-> NoResult,
     trace |-> <<>>, expected |-> <<>>, from_empty |-> FALSE,
     q0 |-> [r \in Roles |-> <<>>], tags |-> <<>>, idx0 |-> 0, noise |-> FALSE,
     updates |-> EmptyMap, row |-> NewRow(NoSeg), attached |-> FALSE, stale |-> NoSeg,
     ev |-> Entry("info", <<>>, NoRun), flush_id |-> 0, summary |-> "none",
     fd |-> NoId, flush_failed |-> FALSE, order0 |-> <<>>, buckets0 |-> EmptyMap,
     w |-> NoWalkieArgs, wres |-> NoWalkieResult]

TextOk == <<"O", "k">>

TextDots == <<".", ".", ".">>

TextBlank == <<" ">>

RunA == Id("runA", 0)

Kick1 == Id("kickstart", 1)

Kick2 == Id("KickStart", 2)

S1 == Id("s", 1)

MetaIn(run, seg, audio) == Meta(run, seg, "none", "none", audio, FALSE, FALSE, "none")

StudentMsg(text, meta) == Msg(NoId, "student_response", text, <<>>, NoId, FALSE, meta)

\* Responses with and without a segment id, a run id (plain or legacy) and audio.
StudentMessages ==
    {StudentMsg(TextOk, MetaIn(NoRun, NoSeg, "none")),
     StudentMsg(TextOk, MetaIn(Kick1, S1, "none")),
     StudentMsg(TextOk, MetaIn(RunA, S1, "in.wav")),
     StudentMsg(TextOk, MetaIn(Kick2, NoSeg, "none")),
     StudentMsg(TextDots, MetaIn(NoRun, NoSeg, "none")),
     StudentMsg(TextDots, MetaIn(Kick1, S1, "none")),
     StudentMsg(TextBlank, MetaIn(NoRun, NoSeg, "none"))}

LessonMsg(id, book, text, meta) == Msg(id, "lesson_package", text, book, NoId, FALSE, meta)

TextbookText == <<" ", "a", "b", " ">>

LessonMessages ==
    {LessonMsg(NoId, <<"b">>, TextbookText, EmptyMeta),
     LessonMsg(Id("pkg-in", 1), <<"B", "!">>, TextbookText, MetaIn(RunA, NoSeg, "none")),
     LessonMsg(NoId, <<"!">>, TextbookText, EmptyMeta),
     LessonMsg(NoId, <<>>, TextbookText, EmptyMeta),
     LessonMsg(NoId, <<"b">>, TextBlank, EmptyMeta)}

OtherMsg == Msg(Id("m", 1), "other", TextOk, <<>>, NoId, FALSE, EmptyMeta)

\* The (from, to, message) triples of POST /send_message.
Send(sender, receiver, message) ==
    [sender |-> sender, receiver |-> receiver, message |-> message]

StudentSends == {Send("stt", "ai", m) : m \in StudentMessages}

LessonSends == {Send("stt", "ai", m) : m \in LessonMessages}

\* Plain messages to every role, to an unknown role, and without a sender.
PlainSends ==
    {Send("teacher", r, OtherMsg) : r \in Roles \cup {"nobody"}}
        \cup {Send("", "ai", OtherMsg)}

SendInputs == StudentSends \cup LessonSends \cup PlainSends

InjectInputs ==
    {[text |-> TextOk, run |-> NoRun], [text |-> TextDots, run |-> Kick1],
     [text |-> TextBlank, run |-> NoRun]}

DrainInputs == Roles \cup {"nobody"}

\* A file left in the log directory by an earlier process.
OldDoc == [run_id |-> Id("old", 0), status |-> "ok", events |-> <<>>]

EmptyState ==
    /\ \A r \in Roles : message_queues_by_role[r] = <<>>
    /\ event_log = <<>>
    /\ run_docs = EmptyMap
    /\ run_events_by_id = EmptyMap
    /\ pipeline_segment_order = <<>>
    /\ auto_run_next_idx = 0

Init ==
    /\ message_queues_by_role = [r \in Roles |-> <<>>]
    /\ event_log = <<>>
    /\ run_events_by_id = EmptyMap
    /\ run_files_by_id = EmptyMap
    /\ run_docs \in {EmptyMap, [x \in {LogId(2)} |-> OldDoc]}
    /\ auto_run_next_idx = 0
    /\ legacy_run_id_map = EmptyMap
    /\ audio_bridge_ready_logged = FALSE
    /\ pipeline_segments_by_id = EmptyMap
    /\ pipeline_segment_order = <<>>
    /\ pipeline_last_ids = [s \in TrackedStatuses |-> NoSeg]
    /\ id_counter = 0
    /\ pc = [t \in Threads |-> "idle"]
    /\ req = [t \in Threads |-> IdleReq]
    /\ nreq = 0
    /\ enq_count = 0
    /\ delivered = <<>>
    /\ since_drain = [r \in Roles |-> <<>>]
    /\ resolutions = {}
    /\ omitted_allocs = 0
    /\ first_idx = 0
    /\ last_done = [op |-> "none", receiver |-> "none"]
    /\ walkie_sessions_by_id = EmptyMap
    /\ walkie_session_id_by_pair_code = EmptyMap
    /\ walkie_lock = "free"
    /\ walkie_tls_ready = FALSE
    /\ https_mirror = "starting"
    /\ now = 1
    /\ walkie_counter = 0
    /\ walkie_issued = NothingIssued
    /\ walkie_pending = EmptyMap
    /\ walkie_closed = {}

queueVars == <<message_queues_by_role, enq_count, since_drain>>

logVars ==
    <<event_log, run_events_by_id, run_files_by_id, run_docs, auto_run_next_idx,
      legacy_run_id_map, audio_bridge_ready_logged, first_idx>>

pipeVars == <<pipeline_segments_by_id, pipeline_segment_order, pipeline_last_ids>>

runGhosts == <<resolutions, omitted_allocs>>

\* The state of the walkie relay, its clock and its ghosts.
walkieVars ==
    <<walkie_sessions_by_id, walkie_session_id_by_pair_code, walkie_lock,
      walkie_tls_ready, https_mirror, now, walkie_counter, walkie_issued,
      walkie_pending, walkie_closed>>

\* Store the run-log registries and the bridge's logged flag; first_idx remembers
\* where the counter started.
CommitLogAnd(L, ready_logged) ==
    /\ SetLogState(L)
    /\ audio_bridge_ready_logged' = ready_logged
    /\ first_idx' = IF first_idx = 0 /\ L.auto_run_next_idx # 0
                    THEN scan_next_log_index(run_docs) ELSE first_idx

CommitLog(L) == CommitLogAnd(L, audio_bridge_ready_logged)

\* Note that the caller's run id raw was resolved to rid.
NoteResolution(raw, rid) ==
    /\ resolutions' = IF raw = NoRun THEN resolutions
                      ELSE resolutions \cup {[raw |-> raw, rid |-> rid]}
    /\ omitted_allocs' = IF raw = NoRun THEN omitted_allocs + 1 ELSE omitted_allocs

Goto(t, label, r) ==
    /\ pc' = [pc EXCEPT ![t] = label]
    /\ req' = [req EXCEPT ![t] = r]

\* New request record of thread t.
NewReq(op) ==
    [IdleReq EXCEPT !.op = op, !.from_empty = EmptyState /\ nreq = 0,
                    !.q0 = message_queues_by_role, !.idx0 = auto_run_next_idx,
                    !.order0 = pipeline_segment_order,
                    !.buckets0 = run_events_by_id]

\* A free thread takes the next request, while the behaviour's budget lasts.
CanStart(t, max) == pc[t] = "idle" /\ nreq < max

\* _enqueue(receiver, sender, message_obj): the append and its "enqueue" event.
enqueue(queues, L, receiver, sender, message, tag) ==
    [queues |-> [queues EXCEPT ![receiver] =
                    QueueAppend(@, Envelope(sender, message, tag))],
     L |-> log_event(L, <<"enqueue">>, "info", message.meta.flow_run_id)]

\* An action's use of _enqueue, with the bookkeeping of the envelope's tag.
DoEnqueue(receiver, sender, message) ==
    LET e == enqueue(message_queues_by_role, LogState, receiver, sender, message,
                     enq_count + 1)
    IN  /\ message_queues_by_role' = e.queues
        /\ CommitLog(e.L)
        /\ enq_count' = enq_count + 1
        /\ since_drain' = [since_drain EXCEPT ![receiver] =
                              Append(@, Envelope(sender, message, enq_count + 1))]

(* ------------------------- POST /send_message ------------------------- *)

\* enqueue_message up to its dispatch: validation and the "send_message" event.
StartSendMessage(t, inputs, max) ==
    /\ CanStart(t, max)
    /\ \E in \in inputs :
        LET r0 == [NewReq("send_message") EXCEPT
                      !.sender = in.sender, !.receiver = in.receiver,
                      !.message = in.message, !.raw_run = in.message.meta.flow_run_id]
            raw == in.message.meta.flow_run_id
        IN  IF in.sender = "" \/ in.receiver = ""
            THEN /\ CommitLog(log_event(LogState, <<"send", "message", "invalid">>,
                                        "warn", NoRun))
                 /\ Goto(t, "done", [r0 EXCEPT !.result = Error400("missing_fields")])
                 /\ UNCHANGED runGhosts
            ELSE IF in.receiver \notin Roles
            THEN /\ CommitLog(log_event(LogState,
                                        <<"send", "message", "invalid", "receiver">>,
                                        "warn", NoRun))
                 /\ Goto(t, "done", [r0 EXCEPT !.result = Error400("unknown_receiver")])
                 /\ UNCHANGED runGhosts
            ELSE /\ CommitLog(log_event(LogState, <<"send", "message">>, "info", raw))
                 /\ IF raw = NoRun THEN UNCHANGED runGhosts
                    ELSE NoteResolution(raw, safe_run_id(LogState, raw).rid)
                 /\ Goto(t,
                         IF in.receiver = "ai" /\ in.message.kind = "lesson_package"
                         THEN "lp_expand"
                         ELSE IF in.receiver = "ai" /\ in.message.kind = "student_response"
                         THEN "hsr_resolve"
                         ELSE "sm_enqueue",
                         r0)
    /\ nreq' = nreq + 1
    /\ UNCHANGED walkieVars
    /\ UNCHANGED <<queueVars, pipeVars, id_counter, delivered, last_done>>

\* enqueue_message's plain path: _enqueue(receiver, sender, message).
SendEnqueue(t) ==
    /\ pc[t] = "sm_enqueue"
    /\ DoEnqueue(req[t].receiver, req[t].sender, req[t].message)
    /\ Goto(t, "done", [req[t] EXCEPT !.result = Ok200, !.tags = <<enq_count + 1>>])
    /\ UNCHANGED walkieVars
    /\ UNCHANGED <<pipeVars, id_counter, nreq, delivered, runGhosts, last_done>>

(* ---------------------- GET /get_messages/<role> ---------------------- *)

\* dequeue_messages up to messages = queue.copy().
StartGetMessages(t, inputs, max) ==
    /\ CanStart(t, max)
    /\ \E receiver \in inputs :
        LET r0 == [NewReq("get_messages") EXCEPT !.receiver = receiver]
        IN  IF receiver \notin Roles
            THEN Goto(t, "done", [r0 EXCEPT !.result = Error400("unknown")])
            ELSE Goto(t, "dq_clear",
                      [r0 EXCEPT !.messages = QueueCopy(message_queues_by_role[receiver]),
                                 !.expected = since_drain[receiver]])
    /\ nreq' = nreq + 1
    /\ UNCHANGED walkieVars
    /\ UNCHANGED <<queueVars, logVars, pipeVars, id_counter, delivered, runGhosts,
                   last_done>>

\* dequeue_messages from queue.clear() to its response.
GetMessagesClear(t) ==
    /\ pc[t] = "dq_clear"
    /\ message_queues_by_role' =
           [message_queues_by_role EXCEPT ![req[t].receiver] = QueueClear(@)]
    /\ CommitLog(log_event(LogState, <<"get", "messages">>, "info", NoRun))
    /\ delivered' = delivered \o Tags(req[t].messages)
    /\ since_drain' = [since_drain EXCEPT ![req[t].receiver] = <<>>]
    /\ Goto(t, "done", [req[t] EXCEPT !.result = Ok200])
    /\ UNCHANGED walkieVars
    /\ UNCHANGED <<enq_count, pipeVars, id_counter, nreq, runGhosts, last_done>>

\* The response leaves the server; the thread is free again.
Respond(t) ==
    /\ pc[t] = "done"
    /\ last_done' = [op |-> req[t].op, receiver |-> req[t].receiver]
    /\ Goto(t, "idle", IdleReq)
    /\ UNCHANGED walkieVars
    /\ UNCHANGED <<queueVars, logVars, pipeVars, id_counter, nreq, delivered, runGhosts>>

(* -------------------------- Response Handler -------------------------- *)

\* The noise branch forgetting status= (only sent_status is passed).
DroppedUpdatesNoStatus(r) ==
    [flow_run_id |-> r.flow_run_id, text |-> r.text,
     source_role |-> IF r.message.meta.source_role # "none"
                     THEN r.message.meta.source_role ELSE r.sender,
     source_page |-> r.message.meta.source_page, injected |-> r.injected,
     sent_status |-> "dropped"]

\* The keyword arguments of the handler's three upserts.
DroppedUpdates(r) ==
    [flow_run_id |-> r.flow_run_id, text |-> r.text, status |-> "dropped",
     source_role |-> IF r.message.meta.source_role # "none"
                     THEN r.message.meta.source_role ELSE r.sender,
     source_page |-> r.message.meta.source_page, injected |-> r.injected,
     sent_status |-> "dropped"]

CapturedUpdates(r) ==
    [flow_run_id |-> r.flow_run_id, audio_ref |-> r.audio_ref, status |-> "captured",
     sent_status |-> "captured"]

\* Keyword arguments that mark the segment sent before its envelope is enqueued.
TranscribedUpdatesSent(r, payload) ==
    [flow_run_id |-> r.flow_run_id, text |-> r.text, audio_ref |-> r.audio_ref,
     status |-> "sent", source_role |-> payload.meta.source_role,
     source_page |-> payload.meta.source_page, injected |-> r.injected,
     sent_status |-> "sent"]

TranscribedUpdates(r, payload) ==
    [flow_run_id |-> r.flow_run_id, text |-> r.text, audio_ref |-> r.audio_ref,
     status |-> "transcribed", source_role |-> payload.meta.source_role,
     source_page |-> payload.meta.source_page, injected |-> r.injected,
     sent_status |-> "transcribed"]

\* The last upsert repeating the previous status.
SentUpdatesStale == [status |-> "transcribed", sent_status |-> "sent"]

SentUpdates == [status |-> "sent", sent_status |-> "sent"]

\* An action's use of _pipeline_upsert_segment; the thread notes the status it left.
DoUpsert(t, label, r, updates) ==
    LET P == pipeline_upsert_segment(PipelineState, r.segment_id, updates)
    IN  /\ SetPipelineState(P)
        /\ Goto(t, label, [r EXCEPT !.trace = Append(@, StatusOf(P, r.segment_id))])

\* Where the handler's caller continues: inject_student_text logs once more.
AfterHandler(r) == IF r.op = "inject_student_text" THEN "inj_log" ELSE "done"

\* _handle_student_response, lines 752-764: text, segment id, run id, noise test.
HandleResolve(t) ==
    /\ pc[t] = "hsr_resolve"
    /\ LET r == req[t]
           m == r.message
           text == Strip(m.text)
           given == IF m.meta.segment_id # NoSeg THEN m.meta.segment_id ELSE m.id
           sid == IF given # NoId THEN given ELSE make_id("seg", id_counter)
           run == safe_run_id(LogState, m.meta.flow_run_id)
       IN  IF text = <<>>
           THEN /\ Goto(t, "done", [r EXCEPT !.result = Error400("missing_text")])
                /\ UNCHANGED <<logVars, id_counter, runGhosts>>
           ELSE /\ CommitLog(run.L)
                /\ NoteResolution(m.meta.flow_run_id, run.rid)
                /\ id_counter' = IF given # NoId THEN id_counter ELSE id_counter + 1
                /\ Goto(t,
                        IF looks_like_noise(text) THEN "hsr_drop_upsert"
                        ELSE IF m.meta.audio_ref # "none" THEN "hsr_transcribed"
                        ELSE "hsr_capture",
                        [r EXCEPT !.text = text, !.segment_id = sid,
                                  !.flow_run_id = run.rid,
                                  !.injected = m.meta.injected,
                                  !.audio_ref = m.meta.audio_ref,
                                  !.capture = IF m.meta.audio_ref # "none"
                                              THEN "supplied" ELSE "none"])
    /\ UNCHANGED walkieVars
    /\ UNCHANGED <<queueVars, pipeVars, nreq, delivered, last_done>>

\* The noise branch: the segment is marked dropped.
HandleDropUpsert(t) ==
    /\ pc[t] = "hsr_drop_upsert"
    /\ DoUpsert(t, "hsr_drop_log", req[t], DroppedUpdates(req[t]))
    /\ UNCHANGED walkieVars
    /\ UNCHANGED <<queueVars, logVars, id_counter, nreq, delivered, runGhosts, last_done>>

\* The noise branch: the warning, and the handler's return.
HandleDropLog(t) ==
    /\ pc[t] = "hsr_drop_log"
    /\ LET r == req[t]
       IN  /\ CommitLog(log_event(LogState, <<"student", "response", "dropped", "noise">>,
                                  "warn", r.flow_run_id))
           /\ Goto(t, AfterHandler(r),
                   [r EXCEPT !.result = Result(200, "none", TRUE, r.segment_id,
                                               r.flow_run_id, "none", NoId)])
    /\ UNCHANGED walkieVars
    /\ UNCHANGED <<queueVars, pipeVars, id_counter, nreq, delivered, runGhosts, last_done>>

\* What the audio bridge does with a capture request: there is no bridge, the
\* capture starts and its path comes back, or capture_segment raises.
CaptureOutcomes == {"unavailable", "ok", "raised"}

\* _get_audio_bridge(ensure=True): the first ensure_ready that reports the bridge
\* ready logs "audio_bridge_ready", once per process.
get_audio_bridge(L, ready) ==
    IF ready THEN log_event(L, <<"audio", "bridge", "ready">>, "info", NoRun) ELSE L

\* _capture_audio_for_segment up to its upsert: the event and the audio_ref.
capture_audio_for_segment(L, flow_run_id, outcome) ==
    CASE outcome = "unavailable" -> [L |-> L, audio_ref |-> "none"]
      [] outcome = "ok" ->
            [L |-> log_event(L, <<"audio", "segment", "captured">>, "info", flow_run_id),
             audio_ref |-> "captured.wav"]
      [] outcome = "raised" ->
            [L |-> log_event(L, <<"audio", "segment", "capture", "failed">>, "warn",
                             flow_run_id),
             audio_ref |-> "none"]

HandleCapture(t) ==
    /\ pc[t] = "hsr_capture"
    /\ \E outcome \in CaptureOutcomes, ready \in BOOLEAN :
        LET c == capture_audio_for_segment(get_audio_bridge(LogState, ready),
                                           req[t].flow_run_id, outcome)
        IN  /\ ready => outcome # "unavailable" /\ ~audio_bridge_ready_logged
            /\ CommitLogAnd(c.L, audio_bridge_ready_logged \/ ready)
            /\ Goto(t, IF outcome = "ok" THEN "hsr_captured_upsert" ELSE "hsr_transcribed",
                    [req[t] EXCEPT !.capture = outcome, !.audio_ref = c.audio_ref])
    /\ UNCHANGED walkieVars
    /\ UNCHANGED <<queueVars, pipeVars, id_counter, nreq, delivered, runGhosts, last_done>>

\* _capture_audio_for_segment after a started capture: the segment is marked captured.
HandleCapturedUpsert(t) ==
    /\ pc[t] = "hsr_captured_upsert"
    /\ DoUpsert(t, "hsr_transcribed", req[t], CapturedUpdates(req[t]))
    /\ UNCHANGED walkieVars
    /\ UNCHANGED <<queueVars, logVars, id_counter, nreq, delivered, runGhosts, last_done>>

\* A payload builder that always generates the id instead of taking the segment's.
build_payload_fresh_id(L, text, flow_run_id, segment_id, injected, source_role, source_page, audio_ref, counter) ==
    LET seg_id == make_id("seg", counter)
        run == safe_run_id(L, flow_run_id)
    IN  [payload |-> Msg(seg_id, "student_response", Strip(text), <<>>, NoId, FALSE,
                         Meta(run.rid, seg_id, source_role, source_page, audio_ref,
                              injected, TRUE, "none")),
         L |-> run.L]

build_student_response_payload(L, text, flow_run_id, segment_id, injected, source_role, source_page, audio_ref, counter) ==
    LET seg_id == IF segment_id # NoSeg THEN segment_id ELSE make_id("seg", counter)
        run == safe_run_id(L, flow_run_id)
    IN  [payload |-> Msg(seg_id, "student_response", Strip(text), <<>>, NoId, FALSE,
                         Meta(run.rid, seg_id, source_role, source_page, audio_ref,
                              injected, TRUE, "none")),
         L |-> run.L]

\* The payload the handler builds for the ai mailbox.
HandlerPayload(L, r) ==
    LET b == build_student_response_payload(
                 L, r.text, r.flow_run_id, r.segment_id, r.injected,
                 IF r.message.meta.source_role # "none"
                 THEN r.message.meta.source_role ELSE r.sender,
                 IF r.message.meta.source_page # "none" THEN r.message.meta.source_page
                 ELSE IF r.injected THEN "launcher" ELSE "speechtexter",
                 r.audio_ref, id_counter)
    IN  [b EXCEPT !.payload.meta.injected_by = r.injected_by]

\* The payload is built and the segment is marked transcribed.
HandleTranscribed(t) ==
    /\ pc[t] = "hsr_transcribed"
    /\ LET r == req[t]
           b == HandlerPayload(LogState, r)
       IN  /\ CommitLog(b.L)
           /\ DoUpsert(t, "hsr_finalized_log", [r EXCEPT !.payload = b.payload],
                       TranscribedUpdates(r, b.payload))
    /\ UNCHANGED walkieVars
    /\ UNCHANGED <<queueVars, id_counter, nreq, delivered, runGhosts, last_done>>

HandleFinalizedLog(t) ==
    /\ pc[t] = "hsr_finalized_log"
    /\ CommitLog(log_event(LogState, <<"stt", "segment", "finalized">>, "info",
                           req[t].flow_run_id))
    /\ Goto(t, "hsr_enqueue", req[t])
    /\ UNCHANGED walkieVars
    /\ UNCHANGED <<queueVars, pipeVars, id_counter, nreq, delivered, runGhosts, last_done>>

\* _enqueue("ai", sender, payload)
HandleEnqueue(t) ==
    /\ pc[t] = "hsr_enqueue"
    /\ DoEnqueue("ai", req[t].sender, req[t].payload)
    /\ Goto(t, "hsr_sent_upsert", [req[t] EXCEPT !.tags = <<enq_count + 1>>])
    /\ UNCHANGED walkieVars
    /\ UNCHANGED <<pipeVars, id_counter, nreq, delivered, runGhosts, last_done>>

HandleSentUpsert(t) ==
    /\ pc[t] = "hsr_sent_upsert"
    /\ DoUpsert(t, "hsr_sent_log", req[t], SentUpdates)
    /\ UNCHANGED walkieVars
    /\ UNCHANGED <<queueVars, logVars, id_counter, nreq, delivered, runGhosts, last_done>>

\* The "student_response_sent" event, and the handler's return.
HandleSentLog(t) ==
    /\ pc[t] = "hsr_sent_log"
    /\ LET r == req[t]
       IN  /\ CommitLog(log_event(LogState, <<"student", "response", "sent">>, "info",
                                  r.flow_run_id))
           /\ Goto(t, AfterHandler(r),
                   [r EXCEPT !.result = Result(200, "none", FALSE, r.segment_id,
                                               r.flow_run_id, r.audio_ref, NoId)])
    /\ UNCHANGED walkieVars
    /\ UNCHANGED <<queueVars, pipeVars, id_counter, nreq, delivered, runGhosts, last_done>>

(* --------------------- POST /inject/student_text ---------------------- *)

\* inject_student_text up to its call of the handler.
StartInjectText(t, inputs, max) ==
    /\ CanStart(t, max)
    /\ \E in \in inputs :
        LET text == Strip(in.text)
            run == safe_run_id(LogState, in.run)
            b == build_student_response_payload(run.L, text, run.rid,
                     make_id("seg", id_counter), TRUE, "stt", "launcher_inject_text",
                     "none", id_counter)
            msg == [b.payload EXCEPT !.meta.injected_by = "launcher"]
            r0 == [NewReq("inject_student_text") EXCEPT
                      !.sender = "launcher", !.receiver = "ai", !.raw_run = in.run,
                      !.injected_by = "launcher"]
        IN  /\ NoteResolution(in.run, run.rid)
            /\ IF text = <<>>
               THEN /\ CommitLog(run.L)
                    /\ Goto(t, "done", [r0 EXCEPT !.result = Error400("missing_text")])
                    /\ UNCHANGED id_counter
               ELSE /\ CommitLog(b.L)
                    /\ id_counter' = id_counter + 1
                    /\ Goto(t, "hsr_resolve", [r0 EXCEPT !.message = msg])
    /\ nreq' = nreq + 1
    /\ UNCHANGED walkieVars
    /\ UNCHANGED <<queueVars, pipeVars, delivered, last_done>>

\* inject_student_text after the handler: the "injection_text_sent" event.
InjectLog(t) ==
    /\ pc[t] = "inj_log"
    /\ CommitLog(log_event(LogState, <<"injection", "text", "sent">>, "info",
                           req[t].result.flow_run_id))
    /\ Goto(t, "done", req[t])
    /\ UNCHANGED walkieVars
    /\ UNCHANGED <<queueVars, pipeVars, id_counter, nreq, delivered, runGhosts, last_done>>

(* ---------------------------- noise filter ---------------------------- *)

\* One call of _looks_like_noise on a text, as _handle_student_response makes it.
LooksLikeNoise(t, texts, max) ==
    /\ CanStart(t, max)
    /\ \E text \in texts :
        Goto(t, "done", [NewReq("looks_like_noise") EXCEPT
                            !.text = text, !.noise = looks_like_noise(text)])
    /\ nreq' = nreq + 1
    /\ UNCHANGED walkieVars
    /\ UNCHANGED <<queueVars, logVars, pipeVars, id_counter, delivered, runGhosts,
                   last_done>>

(* --------------------------- POST /log_event -------------------------- *)

\* A client's log entry: its level ("" when it names none) and its run id.
LogEntry(level, run) == [entry |-> TRUE, level |-> level, run |-> run]

\* A payload without an "entry" member.
NoLogEntry == [entry |-> FALSE, level |-> "", run |-> NoRun]

\* log_event, served in one piece: a client_log_entry at the entry's level under the
\* entry's run, or a client_event at level info under no run.
LogEventEntry(t, inputs, max) ==
    /\ CanStart(t, max)
    /\ \E in \in inputs :
        LET level == IF in.level = "" THEN "info" ELSE in.level
            L == IF in.entry
                 THEN log_event(LogState, <<"client", "log", "entry">>, level, in.run)
                 ELSE log_event(LogState, <<"client", "event">>, "info", NoRun)
        IN  /\ CommitLog(L)
            /\ Goto(t, "done", [NewReq("log_event") EXCEPT !.raw_run = in.run,
                                                          !.result = Ok200])
    /\ nreq' = nreq + 1
    /\ UNCHANGED walkieVars
    /\ UNCHANGED <<queueVars, pipeVars, id_counter, delivered, runGhosts, last_done>>

(* ------------------------- Rule Expansion Unit ------------------------ *)

RuleFileText == <<"r">>

RuleFallbackText == <<"f">>

KickoffFileText == <<"k">>

KickoffFallbackText == <<"g">>

\* The three payloads of _expand_lesson_package_to_ai.
RulePayload(id, book, package_id, text, meta) ==
    Msg(id, "rule_prompt", text, book, package_id, TRUE, meta)

\* A content payload that loses the package id.
ContentPayloadNoPackage(id, book, package_id, textbook_text, meta) ==
    Msg(id, "textbook_content", Strip(textbook_text), book, NoId, TRUE, meta)

ContentPayload(id, book, package_id, textbook_text, meta) ==
    Msg(id, "textbook_content", Strip(textbook_text), book, package_id, TRUE, meta)

KickoffPayload(id, book, package_id, text, meta) ==
    Msg(id, "kickoff_prompt", text, book, package_id, FALSE, meta)

\* What _expand_lesson_package_to_ai accepts (line 1161), on the sanitised book key.
LessonPackageValid(m) == safe_book_key(m.book_type) # <<>> /\ Strip(m.text) # <<>>

\* Validation; then the rule prompt is enqueued, or the failure is logged (line 1282).
LessonExpand(t) ==
    /\ pc[t] = "lp_expand"
    /\ LET r == req[t]
           m == r.message
           book == safe_book_key(m.book_type)
           given == m.id # NoId
           package_id == IF given THEN m.id ELSE make_id("pkg", id_counter)
           used == IF given THEN 0 ELSE 1
       IN  IF ~LessonPackageValid(m)
           THEN /\ CommitLog(log_event(LogState,
                                       <<"lesson", "package", "expand", "failed">>,
                                       "warn", NoRun))
                /\ Goto(t, "done", [r EXCEPT !.result = Error400("invalid_lesson_package")])
                /\ UNCHANGED <<queueVars, id_counter>>
           ELSE \E rule_text \in {RuleFileText, RuleFallbackText} :
                /\ DoEnqueue("ai", "system",
                             RulePayload(make_id("rule", id_counter + used), book,
                                         package_id, rule_text, m.meta))
                /\ id_counter' = id_counter + used + 1
                /\ Goto(t, "lp_content",
                        [r EXCEPT !.package_id = package_id, !.book = book,
                                  !.tags = <<enq_count + 1>>])
    /\ UNCHANGED walkieVars
    /\ UNCHANGED <<pipeVars, nreq, delivered, runGhosts, last_done>>

LessonContent(t) ==
    /\ pc[t] = "lp_content"
    /\ LET r == req[t]
       IN  /\ DoEnqueue("ai", "system",
                        ContentPayload(make_id("textbook", id_counter), r.book,
                                       r.package_id, r.message.text, r.message.meta))
           /\ id_counter' = id_counter + 1
           /\ Goto(t, "lp_kickoff", [r EXCEPT !.tags = Append(@, enq_count + 1)])
    /\ UNCHANGED walkieVars
    /\ UNCHANGED <<pipeVars, nreq, delivered, runGhosts, last_done>>

LessonKickoff(t) ==
    /\ pc[t] = "lp_kickoff"
    /\ LET r == req[t]
       IN  \E kickoff_text \in {KickoffFileText, KickoffFallbackText} :
           /\ DoEnqueue("ai", "system",
                        KickoffPayload(make_id("kickoff", id_counter), r.book,
                                       r.package_id, kickoff_text, r.message.meta))
           /\ id_counter' = id_counter + 1
           /\ Goto(t, "lp_log", [r EXCEPT !.tags = Append(@, enq_count + 1)])
    /\ UNCHANGED walkieVars
    /\ UNCHANGED <<pipeVars, nreq, delivered, runGhosts, last_done>>

\* The "lesson_package_expanded" event, and the response with the package id.
LessonLog(t) ==
    /\ pc[t] = "lp_log"
    /\ LET r == req[t]
       IN  /\ CommitLog(log_event(LogState, <<"lesson", "package", "expanded">>, "info",
                                  r.message.meta.flow_run_id))
           /\ Goto(t, "done",
                   [r EXCEPT !.result = Result(200, "none", FALSE, NoSeg, NoRun, "none",
                                               r.package_id)])
    /\ UNCHANGED walkieVars
    /\ UNCHANGED <<queueVars, pipeVars, id_counter, nreq, delivered, runGhosts, last_done>>

(* ----------------------------- walkie relay ---------------------------- *)

\* Everything of the broker that a walkie request leaves alone.
brokerVars == <<queueVars, pipeVars, id_counter, delivered, last_done>>

WalkieRoles == {"receiver", "transmitter"}

WALKIE_SIGNAL_TYPES == {"offer", "answer", "ptt_state", "heartbeat"}

PairCodes == {"c1", "c2"}

\* The two tables as one value, threaded through the helpers below.
WalkieState ==
    [sessions |-> walkie_sessions_by_id, by_code |-> walkie_session_id_by_pair_code]

SetWalkieState(W) ==
    /\ walkie_sessions_by_id' = W.sessions
    /\ walkie_session_id_by_pair_code' = W.by_code

\* A session created with its transmitter token already set.
NewSessionJoined(session_id, pair_code, flow_run_id, receiver_token, now_ms, expires_at) ==
    [session_id |-> session_id, pair_code |-> pair_code, flow_run_id |-> flow_run_id,
     receiver_token |-> receiver_token, transmitter_token |-> receiver_token,
     created_at |-> now_ms, expires_at |-> expires_at, closed |-> FALSE,
     signals |-> [r \in WalkieRoles |-> <<>>],
     last_seen |-> [receiver |-> now_ms, transmitter |-> 0]]

\* The session walkie_session_create stores.
NewSession(session_id, pair_code, flow_run_id, receiver_token, now_ms, expires_at) ==
    [session_id |-> session_id, pair_code |-> pair_code, flow_run_id |-> flow_run_id,
     receiver_token |-> receiver_token, transmitter_token |-> NoId,
     created_at |-> now_ms, expires_at |-> expires_at, closed |-> FALSE,
     signals |-> [r \in WalkieRoles |-> <<>>],
     last_seen |-> [receiver |-> now_ms, transmitter |-> 0]]

Signal(type, from, to, ts_ms) == [type |-> type, from |-> from, to |-> to, ts_ms |-> ts_ms]

\* A staleness test that takes a session at its expires_at for expired.
IsStaleAtExpiry(sess, now_ms) ==
    sess.closed \/ (sess.expires_at > 0 /\ now_ms >= sess.expires_at)

\* closed, or past expires_at
IsStale(sess, now_ms) ==
    sess.closed \/ (sess.expires_at > 0 /\ now_ms > sess.expires_at)

\* A sweep that takes the session from the table and leaves its index entry.
PruneOneKeepIndex(WL, sid) ==
    LET sess == WL.W.sessions[sid]
    IN  [W |-> [sessions |-> Remove(WL.W.sessions, sid), by_code |-> WL.W.by_code],
         L |-> IF ~sess.closed
               THEN log_event(WL.L, <<"walkie", "session", "expired">>, "warn",
                              sess.flow_run_id)
               ELSE WL.L]

\* One pass of the second loop of _walkie_prune_sessions_locked.
PruneOne(WL, sid) ==
    LET sess == WL.W.sessions[sid]
        code == sess.pair_code
    IN  [W |-> [sessions |-> Remove(WL.W.sessions, sid),
                by_code |-> IF code \in DOMAIN WL.W.by_code /\ WL.W.by_code[code] = sid
                            THEN Remove(WL.W.by_code, code) ELSE WL.W.by_code],
         L |-> IF ~sess.closed
               THEN log_event(WL.L, <<"walkie", "session", "expired">>, "warn",
                              sess.flow_run_id)
               ELSE WL.L]

RECURSIVE PruneAll(_, _)
PruneAll(WL, stale) ==
    IF stale = {} THEN WL
    ELSE LET sid == CHOOSE x \in stale : \A y \in stale : x.n <= y.n
         IN  PruneAll(PruneOne(WL, sid), stale \ {sid})

\* A sweep that takes the closed sessions and leaves the expired ones.
walkie_prune_closed_only(W, L, now_ms) ==
    PruneAll([W |-> W, L |-> L], {sid \in DOMAIN W.sessions : W.sessions[sid].closed})

\* _walkie_prune_sessions_locked: stale sessions leave both tables, oldest first.
walkie_prune_sessions_locked(W, L, now_ms) ==
    PruneAll([W |-> W, L |-> L],
             {sid \in DOMAIN W.sessions : IsStale(W.sessions[sid], now_ms)})

walkie_get_session_by_id_locked(W, session_id) ==
    LET sid == StripRaw(session_id)
    IN  IF sid # NoId /\ sid \in DOMAIN W.sessions THEN sid ELSE NoId

\* An authentication that still takes the transmitter tokens of earlier joins.
walkie_auth_earlier_joins(W, session_id, token, now_ms) ==
    LET sid == walkie_get_session_by_id_locked(W, session_id)
        t == StripRaw(token)
        fail(err) == [sid |-> NoId, role |-> "none", err |-> err]
    IN  IF sid = NoId THEN fail("session_not_found")
        ELSE LET sess == W.sessions[sid]
             IN  IF sess.closed THEN fail("session_closed")
                 ELSE IF sess.expires_at > 0 /\ now_ms > sess.expires_at
                 THEN fail("session_expired")
                 ELSE IF t = NoId THEN fail("missing_token")
                 ELSE IF t = sess.receiver_token
                 THEN [sid |-> sid, role |-> "receiver", err |-> "none"]
                 ELSE IF t = sess.transmitter_token \/ t \in walkie_issued.replaced
                 THEN [sid |-> sid, role |-> "transmitter", err |-> "none"]
                 ELSE fail("invalid_token")

\* An authentication that takes any token that is not the receiver's for the
\* transmitter's.
walkie_auth_any_token(W, session_id, token, now_ms) ==
    LET sid == walkie_get_session_by_id_locked(W, session_id)
        t == StripRaw(token)
        fail(err) == [sid |-> NoId, role |-> "none", err |-> err]
    IN  IF sid = NoId THEN fail("session_not_found")
        ELSE LET sess == W.sessions[sid]
             IN  IF sess.closed THEN fail("session_closed")
                 ELSE IF sess.expires_at > 0 /\ now_ms > sess.expires_at
                 THEN fail("session_expired")
                 ELSE IF t = NoId THEN fail("missing_token")
                 ELSE IF t = sess.receiver_token
                 THEN [sid |-> sid, role |-> "receiver", err |-> "none"]
                 ELSE [sid |-> sid, role |-> "transmitter", err |-> "none"]

\* _walkie_auth_locked: the session's id, the role and the error.
walkie_auth_locked(W, session_id, token, now_ms) ==
    LET sid == walkie_get_session_by_id_locked(W, session_id)
        t == StripRaw(token)
        fail(err) == [sid |-> NoId, role |-> "none", err |-> err]
    IN  IF sid = NoId THEN fail("session_not_found")
        ELSE LET sess == W.sessions[sid]
             IN  IF sess.closed THEN fail("session_closed")
                 ELSE IF sess.expires_at > 0 /\ now_ms > sess.expires_at
                 THEN fail("session_expired")
                 ELSE IF t = NoId THEN fail("missing_token")
                 ELSE IF t = sess.receiver_token
                 THEN [sid |-> sid, role |-> "receiver", err |-> "none"]
                 ELSE IF t = sess.transmitter_token
                 THEN [sid |-> sid, role |-> "transmitter", err |-> "none"]
                 ELSE fail("invalid_token")

\* A queueing that refuses the newest signal when the queue is full.
walkie_queue_signal_keep_oldest(sess, target_role, signal) ==
    [sess EXCEPT !.signals[target_role] =
                     IF Len(@) < WALKIE_MAX_SIGNAL_QUEUE THEN Append(@, signal) ELSE @]

\* A queueing that puts the signal on its sender's queue.
walkie_queue_signal_to_sender(sess, target_role, signal) ==
    [sess EXCEPT !.signals[signal.from] =
                     TrimFront(Append(@, signal), WALKIE_MAX_SIGNAL_QUEUE)]

\* A queueing that lets the session live one tick longer.
walkie_queue_signal_extends(sess, target_role, signal) ==
    [sess EXCEPT !.signals[target_role] =
                     TrimFront(Append(@, signal), WALKIE_MAX_SIGNAL_QUEUE),
                 !.expires_at = @ + 1]

\* _walkie_queue_signal_locked
walkie_queue_signal_locked(sess, target_role, signal) ==
    [sess EXCEPT !.signals[target_role] =
                     TrimFront(Append(@, signal), WALKIE_MAX_SIGNAL_QUEUE)]

\* max(100, min(_WALKIE_PULL_TIMEOUT_MS_MAX, timeout_ms)); an unparsable value reads
\* as the maximum.
ClampTimeout(timeout_ms) ==
    LET parsed == IF timeout_ms.ok THEN timeout_ms.ms ELSE WALKIE_PULL_TIMEOUT_MS_MAX
        capped == IF parsed < WALKIE_PULL_TIMEOUT_MS_MAX THEN parsed
                  ELSE WALKIE_PULL_TIMEOUT_MS_MAX
    IN  IF capped > WALKIE_PULL_TIMEOUT_MIN THEN capped ELSE WALKIE_PULL_TIMEOUT_MIN

\* 404 for session_not_found, 401 for every other authentication error.
AuthErrorCode(err) == IF err = "session_not_found" THEN 404 ELSE 401

WALKIE_ENABLE_TLS == TRUE

\* _walkie_endpoint_guard_json answers 503.
WalkieBlocked == WALKIE_ENABLE_TLS /\ ~walkie_tls_ready

\* _walkie_log_rejected: a warning without a run id.
LogRejected(L) == log_event(L, <<"walkie", "signal", "rejected">>, "warn", NoRun)

\* What the server has handed out so far, and values it never handed out.
SessionIdInputs(cfg) ==
    {Raw(x, p) : x \in walkie_issued.sessions \cup cfg.forged, p \in cfg.pads}
        \cup (IF cfg.forged = {} THEN {} ELSE {NoRaw})

TokenInputs(cfg) ==
    {Raw(x, p) : x \in walkie_issued.tokens \cup cfg.forged, p \in cfg.token_pads}
        \cup (IF cfg.forged = {} THEN {} ELSE {NoRaw})

PairCodeInputs(cfg) ==
    {Raw(c, p) : c \in walkie_issued.codes, p \in cfg.pads}
        \cup (IF cfg.forged = {} THEN {} ELSE {Raw("c9", FALSE), Raw("", TRUE)})

\* The view of the session that _walkie_auth_locked decides on.
AuthView(W, session_id, now_ms) ==
    LET sid == walkie_get_session_by_id_locked(W, session_id)
    IN  IF sid = NoId THEN [NoAuth EXCEPT !.done = TRUE]
        ELSE LET sess == W.sessions[sid]
             IN  [done |-> TRUE, found |-> TRUE, closed |-> sess.closed,
                  expired |-> sess.expires_at > 0 /\ now_ms > sess.expires_at,
                  receiver_token |-> sess.receiver_token,
                  transmitter_token |-> sess.transmitter_token]

NewWalkieReq(op, w) == [NewReq(op) EXCEPT !.w = [w EXCEPT !.closed0 = walkie_closed]]

\* The response of a walkie request that ends here.
WalkieDone(t, r, res) == Goto(t, "done", [r EXCEPT !.wres = res])

\* Time passes, up to the horizon of the behaviour.
Tick(horizon) ==
    /\ now < horizon
    /\ now' = now + 1
    /\ UNCHANGED <<queueVars, logVars, pipeVars, runGhosts, id_counter, delivered,
                   last_done, pc, req, nreq, walkie_sessions_by_id,
                   walkie_session_id_by_pair_code, walkie_lock, walkie_tls_ready,
                   https_mirror, walkie_counter, walkie_issued, walkie_pending,
                   walkie_closed>>

walkieTables ==
    <<walkie_sessions_by_id, walkie_session_id_by_pair_code, walkie_counter,
      walkie_issued, walkie_pending, walkie_closed>>

\* The worker of _start_https_mirror_server: the server is made and serves, or the
\* worker ends in its except branch.
MirrorStarted ==
    /\ https_mirror = "starting"
    /\ https_mirror' = "serving"
    /\ walkie_tls_ready' = TRUE
    /\ CommitLog(log_event(LogState, <<"walkie", "info">>, "info", NoRun))
    /\ UNCHANGED <<brokerVars, runGhosts, pc, req, nreq, walkieTables, walkie_lock, now>>

MirrorFailed ==
    /\ https_mirror \in {"starting", "serving"}
    /\ https_mirror' = "failed"
    /\ walkie_tls_ready' = FALSE
    /\ CommitLog(log_event(LogState, <<"walkie", "info">>, "error", NoRun))
    /\ UNCHANGED <<brokerVars, runGhosts, pc, req, nreq, walkieTables, walkie_lock, now>>

envVars == <<walkie_tls_ready, https_mirror, now>>

\* The label of the locked section that follows the prune.
BodyLabel(op) ==
    CASE op = "walkie_session_create" -> "wc_body"
      [] op = "walkie_session_join" -> "wj_body"
      [] op = "walkie_signal_push" -> "wp_body"
      [] op = "walkie_signal_pull" -> "wl_body"
      [] op = "walkie_session_close" -> "wx_body"

\* A sweep that enters the locked section without taking the lock.
WalkiePruneUnlocked(t) ==
    /\ pc[t] = "w_prune"
    /\ UNCHANGED walkie_lock
    /\ LET WL == walkie_prune_sessions_locked(WalkieState, LogState, now)
       IN  /\ SetWalkieState(WL.W)
           /\ CommitLog(WL.L)
    /\ Goto(t, BodyLabel(req[t].op), req[t])
    /\ UNCHANGED <<brokerVars, runGhosts, nreq, envVars, walkie_counter, walkie_issued,
                   walkie_pending, walkie_closed>>

\* with _walkie_lock: _walkie_prune_sessions_locked()
WalkiePrune(t) ==
    /\ pc[t] = "w_prune"
    /\ walkie_lock = "free"
    /\ walkie_lock' = t
    /\ LET WL == walkie_prune_sessions_locked(WalkieState, LogState, now)
       IN  /\ SetWalkieState(WL.W)
           /\ CommitLog(WL.L)
    /\ Goto(t, BodyLabel(req[t].op), req[t])
    /\ UNCHANGED <<brokerVars, runGhosts, nreq, envVars, walkie_counter, walkie_issued,
                   walkie_pending, walkie_closed>>

(* ------------------- POST /walkie/api/session/create ------------------ *)

StartWalkieCreate(t, cfg, max) ==
    /\ CanStart(t, max)
    /\ Cardinality(walkie_issued.sessions) < cfg.sessions
    /\ \E run \in cfg.runs :
        LET r0 == NewWalkieReq("walkie_session_create", NoWalkieArgs)
            rid == safe_run_id(LogState, run)
        IN  IF WalkieBlocked
            THEN /\ WalkieDone(t, r0, WalkieError(503, "walkie_tls_unavailable"))
                 /\ UNCHANGED <<logVars, runGhosts>>
            ELSE /\ CommitLog(rid.L)
                 /\ NoteResolution(run, rid.rid)
                 /\ Goto(t, "w_prune",
                         [r0 EXCEPT !.w.flow_run_id = rid.rid, !.w.now_ms = now,
                                    !.raw_run = run])
    /\ nreq' = nreq + 1
    /\ UNCHANGED <<brokerVars, walkieVars>>

\* The codes one create may sample, in the order it samples them.
PairCodeDraws == [1..PAIR_CODE_ATTEMPTS -> PairCodes]

\* A sampling that gives up after its first code.
draw_pair_code_once(index, draws) ==
    IF draws[1] \notin DOMAIN index THEN draws[1] ELSE ""

\* for _ in range(40): the first sampled code that is not a key of the index, or
\* none.
draw_pair_code(index, draws) ==
    LET free == {i \in DOMAIN draws : draws[i] \notin DOMAIN index}
    IN  IF free = {} THEN "" ELSE draws[CHOOSE i \in free : \A j \in free : i <= j]

\* The pair code is drawn up to 40 times; the session and its index entry are stored.
WalkieCreateBody(t) ==
    /\ pc[t] = "wc_body"
    /\ walkie_lock' = "free"
    /\ \E draws \in PairCodeDraws :
        LET r == [req[t] EXCEPT !.w.draws = draws]
            code == draw_pair_code(walkie_session_id_by_pair_code, draws)
            session_id == Id("walkie", walkie_counter + 1)
            receiver_token == Id("tok", walkie_counter + 2)
            expires_at == r.w.now_ms + WALKIE_SESSION_TTL
            sess == NewSession(session_id, code, r.w.flow_run_id, receiver_token,
                               r.w.now_ms, expires_at)
        IN  IF code = ""
            THEN /\ WalkieDone(t, r, WalkieError(500, "pair_code_generation_failed"))
                 /\ UNCHANGED walkieTables
            ELSE /\ walkie_sessions_by_id' = Put(walkie_sessions_by_id, session_id, sess)
                 /\ walkie_session_id_by_pair_code' =
                        Put(walkie_session_id_by_pair_code, code, session_id)
                 /\ walkie_counter' = walkie_counter + 2
                 /\ walkie_issued' =
                        [walkie_issued EXCEPT
                            !.sessions = @ \cup {session_id},
                            !.codes = @ \cup {code},
                            !.tokens = @ \cup {receiver_token},
                            !.expires_at = Put(@, session_id, expires_at),
                            !.pair_code = Put(@, session_id, code),
                            !.receiver = Put(@, session_id, receiver_token),
                            !.owner = Put(@, receiver_token, session_id)]
                 /\ Goto(t, "wc_log",
                         [r EXCEPT !.wres = WalkieResult(200, "none", session_id, code,
                                                         receiver_token, "receiver",
                                                         <<>>)])
                 /\ UNCHANGED <<walkie_pending, walkie_closed>>
    /\ UNCHANGED <<brokerVars, logVars, runGhosts, nreq, envVars>>

WalkieCreateLog(t) ==
    /\ pc[t] = "wc_log"
    /\ CommitLog(log_event(LogState, <<"walkie", "session", "created">>, "info",
                           req[t].w.flow_run_id))
    /\ Goto(t, "done", req[t])
    /\ UNCHANGED <<brokerVars, runGhosts, nreq, walkieVars>>

(* -------------------- POST /walkie/api/session/join ------------------- *)

StartWalkieJoin(t, cfg, max) ==
    /\ CanStart(t, max)
    /\ \E pair_code \in PairCodeInputs(cfg) :
        LET r0 == NewWalkieReq("walkie_session_join",
                               [NoWalkieArgs EXCEPT !.pair_code = pair_code])
        IN  IF WalkieBlocked
            THEN /\ WalkieDone(t, r0, WalkieError(503, "walkie_tls_unavailable"))
                 /\ UNCHANGED logVars
            ELSE IF StripRaw(pair_code) = ""
            THEN /\ CommitLog(LogRejected(LogState))
                 /\ WalkieDone(t, r0, WalkieError(400, "missing_pair_code"))
            ELSE /\ Goto(t, "w_prune", r0)
                 /\ UNCHANGED logVars
    /\ nreq' = nreq + 1
    /\ UNCHANGED <<brokerVars, runGhosts, walkieVars>>

\* The lookup by pair code, the expiry check and the new transmitter token.
WalkieJoinBody(t) ==
    /\ pc[t] = "wj_body"
    /\ walkie_lock' = "free"
    /\ LET r == [req[t] EXCEPT !.w.at = now]
           pair_code == StripRaw(r.w.pair_code)
           known == pair_code \in DOMAIN walkie_session_id_by_pair_code
           session_id == IF known THEN walkie_session_id_by_pair_code[pair_code] ELSE NoId
           found == known /\ session_id \in DOMAIN walkie_sessions_by_id
           transmitter_token == Id("tok", walkie_counter + 1)
           reject(code, error) ==
               /\ CommitLog(LogRejected(LogState))
               /\ WalkieDone(t, r, WalkieError(code, error))
               /\ UNCHANGED walkieTables
       IN  IF ~known THEN reject(404, "pair_code_not_found")
           ELSE IF ~found THEN reject(404, "session_not_found")
           ELSE IF IsStale(walkie_sessions_by_id[session_id], now)
           THEN reject(410, "session_expired")
           ELSE LET sess == walkie_sessions_by_id[session_id]
                IN  /\ walkie_sessions_by_id' =
                           [walkie_sessions_by_id EXCEPT ![session_id] =
                               [sess EXCEPT !.transmitter_token = transmitter_token,
                                            !.last_seen.transmitter = now]]
                    /\ walkie_counter' = walkie_counter + 1
                    /\ walkie_issued' =
                           [walkie_issued EXCEPT
                               !.tokens = @ \cup {transmitter_token},
                               !.owner = Put(@, transmitter_token, session_id),
                               !.replaced = @ \cup ({sess.transmitter_token} \ {NoId})]
                    /\ Goto(t, "wj_log",
                            [r EXCEPT !.w.flow_run_id = sess.flow_run_id,
                                      !.w.prev_token = sess.transmitter_token,
                                      !.wres = WalkieResult(200, "none", session_id,
                                                            pair_code, transmitter_token,
                                                            "transmitter", <<>>)])
                    /\ UNCHANGED <<logVars, walkie_session_id_by_pair_code,
                                   walkie_pending, walkie_closed>>
    /\ UNCHANGED <<brokerVars, runGhosts, nreq, envVars>>

WalkieJoinLog(t) ==
    /\ pc[t] = "wj_log"
    /\ CommitLog(log_event(LogState, <<"walkie", "session", "joined">>, "info",
                           req[t].w.flow_run_id))
    /\ Goto(t, "done", req[t])
    /\ UNCHANGED <<brokerVars, runGhosts, nreq, walkieVars>>

(* -------------------- POST /walkie/api/signal/push -------------------- *)

PendingKey(session_id, role) == [session_id |-> session_id, role |-> role]

PendingOf(session_id, role) ==
    IF PendingKey(session_id, role) \in DOMAIN walkie_pending
    THEN walkie_pending[PendingKey(session_id, role)] ELSE <<>>

StartWalkiePush(t, cfg, max) ==
    /\ CanStart(t, max)
    /\ \E session_id \in SessionIdInputs(cfg), token \in TokenInputs(cfg),
          to \in cfg.tos, type \in cfg.types :
        LET r0 == NewWalkieReq("walkie_signal_push",
                               [NoWalkieArgs EXCEPT !.session_id = session_id,
                                                    !.token = token, !.to = to,
                                                    !.type = type,
                                                    !.before = walkie_sessions_by_id])
        IN  IF WalkieBlocked
            THEN /\ WalkieDone(t, r0, WalkieError(503, "walkie_tls_unavailable"))
                 /\ UNCHANGED logVars
            ELSE IF StripLower(to) \notin WalkieRoles
            THEN /\ CommitLog(LogRejected(LogState))
                 /\ WalkieDone(t, r0, WalkieError(400, "invalid_to_role"))
            ELSE IF StripLower(type) \notin WALKIE_SIGNAL_TYPES
            THEN /\ CommitLog(LogRejected(LogState))
                 /\ WalkieDone(t, r0, WalkieError(400, "invalid_signal_type"))
            ELSE /\ Goto(t, "w_prune", r0)
                 /\ UNCHANGED logVars
    /\ nreq' = nreq + 1
    /\ UNCHANGED <<brokerVars, runGhosts, walkieVars>>

\* Authentication, the same-role check, the append and last_seen.
WalkiePushBody(t) ==
    /\ pc[t] = "wp_body"
    /\ walkie_lock' = "free"
    /\ LET r == req[t]
           a == walkie_auth_locked(WalkieState, r.w.session_id, r.w.token, now)
           to_role == StripLower(r.w.to)
           r1 == [r EXCEPT !.w.auth = AuthView(WalkieState, r.w.session_id, now),
                           !.w.role = a.role, !.w.at = now]
           reject(code, error) ==
               /\ CommitLog(LogRejected(LogState))
               /\ WalkieDone(t, r1, WalkieError(code, error))
               /\ UNCHANGED walkieTables
       IN  IF a.err # "none" THEN reject(AuthErrorCode(a.err), a.err)
           ELSE IF a.role = to_role THEN reject(400, "cannot_signal_same_role")
           ELSE LET sess == walkie_sessions_by_id[a.sid]
                    signal == Signal(StripLower(r.w.type), a.role, to_role, now)
                    queued == walkie_queue_signal_locked(sess, to_role, signal)
                IN  /\ walkie_sessions_by_id' =
                           [walkie_sessions_by_id EXCEPT ![a.sid] =
                               [queued EXCEPT !.last_seen[a.role] = signal.ts_ms]]
                    /\ walkie_pending' =
                           Put(walkie_pending, PendingKey(a.sid, to_role),
                               Append(PendingOf(a.sid, to_role), signal))
                    /\ Goto(t, "wp_log",
                            [r1 EXCEPT !.w.flow_run_id = sess.flow_run_id,
                                       !.wres = WalkieResult(200, "none", a.sid, "",
                                                             NoId, a.role, <<signal>>)])
                    /\ UNCHANGED <<logVars, walkie_session_id_by_pair_code,
                                   walkie_counter, walkie_issued, walkie_closed>>
    /\ UNCHANGED <<brokerVars, runGhosts, nreq, envVars>>

\* offer, answer and ptt_state are logged; a heartbeat is not.
WalkiePushLog(t) ==
    /\ pc[t] = "wp_log"
    /\ LET type == StripLower(req[t].w.type)
           event == CASE type = "offer" -> <<"walkie", "signal", "offer">>
                      [] type = "answer" -> <<"walkie", "signal", "answer">>
                      [] type = "ptt_state" -> <<"walkie", "ptt", "state">>
                      [] OTHER -> <<>>
       IN  IF event # <<>>
           THEN CommitLog(log_event(LogState, event, "info", req[t].w.flow_run_id))
           ELSE UNCHANGED logVars
    /\ Goto(t, "done", req[t])
    /\ UNCHANGED <<brokerVars, runGhosts, nreq, walkieVars>>

(* --------------------- GET /walkie/api/signal/pull -------------------- *)

StartWalkiePull(t, cfg, max) ==
    /\ CanStart(t, max)
    /\ \E session_id \in SessionIdInputs(cfg), token \in TokenInputs(cfg),
          timeout_ms \in cfg.timeouts :
        LET r0 == NewWalkieReq("walkie_signal_pull",
                               [NoWalkieArgs EXCEPT
                                   !.session_id = session_id, !.token = token,
                                   !.timeout_ms = timeout_ms, !.start = now,
                                   !.deadline = now + ClampTimeout(timeout_ms)])
        IN  IF WalkieBlocked
            THEN WalkieDone(t, r0, WalkieError(503, "walkie_tls_unavailable"))
            ELSE Goto(t, "w_prune", r0)
    /\ nreq' = nreq + 1
    /\ UNCHANGED <<brokerVars, logVars, runGhosts, walkieVars>>

\* A pull that goes to sleep with the lock still held.
WalkiePullBodySleepLocked(t) ==
    /\ pc[t] = "wl_body"
    /\ LET r == req[t]
           a == walkie_auth_locked(WalkieState, r.w.session_id, r.w.token, now)
           r1 == [r EXCEPT !.w.auth = AuthView(WalkieState, r.w.session_id, now),
                           !.w.role = a.role, !.w.at = now,
                           !.w.first_ok = IF r.w.waited THEN @ ELSE a.err = "none",
                           !.w.role0 = IF r.w.waited THEN @ ELSE a.role,
                           !.w.expected = IF a.err = "none"
                                          THEN PendingOf(a.sid, a.role) ELSE @]
       IN  IF a.err # "none"
           THEN /\ CommitLog(LogRejected(LogState))
                /\ WalkieDone(t, r1, WalkieError(AuthErrorCode(a.err), a.err))
                /\ UNCHANGED walkieTables
           ELSE LET sess == walkie_sessions_by_id[a.sid]
                    signals == sess.signals[a.role]
                IN  IF signals # <<>>
                    THEN /\ walkie_sessions_by_id' =
                                [walkie_sessions_by_id EXCEPT ![a.sid] =
                                    [sess EXCEPT !.signals[a.role] = <<>>,
                                                 !.last_seen[a.role] = now]]
                         /\ walkie_pending' =
                                Put(walkie_pending, PendingKey(a.sid, a.role), <<>>)
                         /\ WalkieDone(t, r1, WalkieResult(200, "none", a.sid, "", NoId,
                                                            a.role, signals))
                         /\ UNCHANGED <<logVars, walkie_session_id_by_pair_code,
                                        walkie_counter, walkie_issued, walkie_closed>>
                    ELSE /\ Goto(t, "wl_wait", r1)
                         /\ UNCHANGED <<logVars, walkieTables>>
    /\ UNCHANGED <<brokerVars, runGhosts, nreq, envVars>>
    /\ walkie_lock' = IF pc'[t] = "wl_wait" THEN t ELSE "free"

\* A pull that empties its queue and answers with no signals.
WalkiePullBodyDropsBatch(t) ==
    /\ pc[t] = "wl_body"
    /\ walkie_lock' = "free"
    /\ LET r == req[t]
           a == walkie_auth_locked(WalkieState, r.w.session_id, r.w.token, now)
           r1 == [r EXCEPT !.w.auth = AuthView(WalkieState, r.w.session_id, now),
                           !.w.role = a.role, !.w.at = now,
                           !.w.first_ok = IF r.w.waited THEN @ ELSE a.err = "none",
                           !.w.role0 = IF r.w.waited THEN @ ELSE a.role,
                           !.w.expected = IF a.err = "none"
                                          THEN PendingOf(a.sid, a.role) ELSE @]
       IN  IF a.err # "none"
           THEN /\ CommitLog(LogRejected(LogState))
                /\ WalkieDone(t, r1, WalkieError(AuthErrorCode(a.err), a.err))
                /\ UNCHANGED walkieTables
           ELSE LET sess == walkie_sessions_by_id[a.sid]
                    signals == sess.signals[a.role]
                IN  IF signals # <<>>
                    THEN /\ walkie_sessions_by_id' =
                                [walkie_sessions_by_id EXCEPT ![a.sid] =
                                    [sess EXCEPT !.signals[a.role] = <<>>,
                                                 !.last_seen[a.role] = now]]
                         /\ walkie_pending' =
                                Put(walkie_pending, PendingKey(a.sid, a.role), <<>>)
                         /\ WalkieDone(t, r1, WalkieResult(200, "none", a.sid, "", NoId,
                                                            a.role, <<>>))
                         /\ UNCHANGED <<logVars, walkie_session_id_by_pair_code,
                                        walkie_counter, walkie_issued, walkie_closed>>
                    ELSE /\ Goto(t, "wl_wait", r1)
                         /\ UNCHANGED <<logVars, walkieTables>>
    /\ UNCHANGED <<brokerVars, runGhosts, nreq, envVars>>

\* One pass of the loop under the lock: authentication, then the batch if there is one.
WalkiePullBody(t) ==
    /\ pc[t] = "wl_body"
    /\ walkie_lock' = "free"
    /\ LET r == req[t]
           a == walkie_auth_locked(WalkieState, r.w.session_id, r.w.token, now)
           r1 == [r EXCEPT !.w.auth = AuthView(WalkieState, r.w.session_id, now),
                           !.w.role = a.role, !.w.at = now,
                           !.w.first_ok = IF r.w.waited THEN @ ELSE a.err = "none",
                           !.w.role0 = IF r.w.waited THEN @ ELSE a.role,
                           !.w.expected = IF a.err = "none"
                                          THEN PendingOf(a.sid, a.role) ELSE @]
       IN  IF a.err # "none"
           THEN /\ CommitLog(LogRejected(LogState))
                /\ WalkieDone(t, r1, WalkieError(AuthErrorCode(a.err), a.err))
                /\ UNCHANGED walkieTables
           ELSE LET sess == walkie_sessions_by_id[a.sid]
                    signals == sess.signals[a.role]
                IN  IF signals # <<>>
                    THEN /\ walkie_sessions_by_id' =
                                [walkie_sessions_by_id EXCEPT ![a.sid] =
                                    [sess EXCEPT !.signals[a.role] = <<>>,
                                                 !.last_seen[a.role] = now]]
                         /\ walkie_pending' =
                                Put(walkie_pending, PendingKey(a.sid, a.role), <<>>)
                         /\ WalkieDone(t, r1, WalkieResult(200, "none", a.sid, "", NoId,
                                                            a.role, signals))
                         /\ UNCHANGED <<logVars, walkie_session_id_by_pair_code,
                                        walkie_counter, walkie_issued, walkie_closed>>
                    ELSE /\ Goto(t, "wl_wait", r1)
                         /\ UNCHANGED <<logVars, walkieTables>>
    /\ UNCHANGED <<brokerVars, runGhosts, nreq, envVars>>

\* A pull that answers its timeout with an error.
WalkiePullTimeoutError(t) ==
    /\ pc[t] = "wl_wait"
    /\ IF now >= req[t].w.deadline
       THEN WalkieDone(t, req[t], WalkieError(408, "timeout"))
       ELSE Goto(t, "w_prune", [req[t] EXCEPT !.w.waited = TRUE])
    /\ UNCHANGED <<brokerVars, logVars, runGhosts, nreq, walkieVars>>

\* A pull that answers with the empty list as soon as it finds its queue empty.
WalkiePullNoWait(t) ==
    /\ pc[t] = "wl_wait"
    /\ WalkieDone(t, req[t], WalkieResult(200, "none", NoId, "", NoId, "none", <<>>))
    /\ UNCHANGED <<brokerVars, logVars, runGhosts, nreq, walkieVars>>

\* Outside the lock: the empty answer once the deadline has passed, else the sleep.
WalkiePullWait(t) ==
    /\ pc[t] = "wl_wait"
    /\ IF now >= req[t].w.deadline
       THEN WalkieDone(t, req[t], WalkieResult(200, "none", NoId, "", NoId, "none", <<>>))
       ELSE Goto(t, "w_prune", [req[t] EXCEPT !.w.waited = TRUE])
    /\ UNCHANGED <<brokerVars, logVars, runGhosts, nreq, walkieVars>>

(* ------------------- POST /walkie/api/session/close ------------------- *)

StartWalkieClose(t, cfg, max) ==
    /\ CanStart(t, max)
    /\ \E session_id \in SessionIdInputs(cfg), token \in TokenInputs(cfg) :
        Goto(t, "w_prune",
             NewWalkieReq("walkie_session_close",
                          [NoWalkieArgs EXCEPT !.session_id = session_id,
                                               !.token = token]))
    /\ nreq' = nreq + 1
    /\ UNCHANGED <<brokerVars, logVars, runGhosts, walkieVars>>

\* Authentication; the session is marked closed; the index entry and the table entry
\* are popped under the session_id as the client wrote it.
WalkieCloseBody(t) ==
    /\ pc[t] = "wx_body"
    /\ walkie_lock' = "free"
    /\ LET r == req[t]
           a == walkie_auth_locked(WalkieState, r.w.session_id, r.w.token, now)
           r1 == [r EXCEPT !.w.auth = AuthView(WalkieState, r.w.session_id, now),
                           !.w.role = a.role, !.w.at = now]
       IN  IF a.err # "none"
           THEN /\ WalkieDone(t, r1, WalkieError(AuthErrorCode(a.err), a.err))
                /\ UNCHANGED walkieTables
           ELSE LET sess == walkie_sessions_by_id[a.sid]
                    code == sess.pair_code
                    by_code == walkie_session_id_by_pair_code
                    marked == [walkie_sessions_by_id EXCEPT ![a.sid].closed = TRUE]
                IN  /\ walkie_session_id_by_pair_code' =
                           IF code # "" /\ code \in DOMAIN by_code
                                  /\ StrRawIs(r.w.session_id, by_code[code])
                           THEN Remove(by_code, code) ELSE by_code
                    /\ walkie_sessions_by_id' =
                           IF StrRawIs(r.w.session_id, a.sid) THEN Remove(marked, a.sid)
                           ELSE marked
                    /\ walkie_closed' =
                           walkie_closed \cup {[session_id |-> a.sid, pair_code |-> code]}
                    /\ Goto(t, "wx_log",
                            [r1 EXCEPT !.w.flow_run_id = sess.flow_run_id,
                                       !.wres = WalkieResult(200, "none", a.sid, code,
                                                             NoId, a.role, <<>>)])
                    /\ UNCHANGED <<walkie_counter, walkie_issued, walkie_pending>>
    /\ UNCHANGED <<brokerVars, logVars, runGhosts, nreq, envVars>>

WalkieCloseLog(t) ==
    /\ pc[t] = "wx_log"
    /\ CommitLog(log_event(LogState, <<"walkie", "session", "closed">>, "info",
                           req[t].w.flow_run_id))
    /\ Goto(t, "done", req[t])
    /\ UNCHANGED <<brokerVars, runGhosts, nreq, walkieVars>>

(* --------------------------- specifications --------------------------- *)

\* The steps of the Response Handler and of inject_student_text after its start.
HandlerStep(t) ==
    \/ HandleResolve(t)
    \/ HandleDropUpsert(t)
    \/ HandleDropLog(t)
    \/ HandleCapture(t)
    \/ HandleCapturedUpsert(t)
    \/ HandleTranscribed(t)
    \/ HandleFinalizedLog(t)
    \/ HandleEnqueue(t)
    \/ HandleSentUpsert(t)
    \/ HandleSentLog(t)
    \/ InjectLog(t)

LessonStep(t) ==
    \/ LessonExpand(t)
    \/ LessonContent(t)
    \/ LessonKickoff(t)
    \/ LessonLog(t)

\* The whole service: request threads interleave at every shared-state operation.
Next ==
    \E t \in Threads :
        \/ StartSendMessage(t, SendInputs, MaxRequests)
        \/ StartGetMessages(t, DrainInputs, MaxRequests)
        \/ StartInjectText(t, InjectInputs, MaxRequests)
        \/ SendEnqueue(t)
        \/ GetMessagesClear(t)
        \/ HandlerStep(t)
        \/ LessonStep(t)
        \/ Respond(t)

Spec == Init /\ [][Next]_vars

\* The thread that serves the requests when they arrive one after the other.
SeqThread == "t1"

\* Requests served one after the other: plain messages and drains of every mailbox.
MailboxNext ==
    \/ StartSendMessage(SeqThread, PlainSends, MaxRequests)
    \/ StartGetMessages(SeqThread, DrainInputs, MaxRequests)
    \/ SendEnqueue(SeqThread)
    \/ GetMessagesClear(SeqThread)
    \/ Respond(SeqThread)

SpecMailbox == Init /\ [][MailboxNext]_vars

\* The same requests served by concurrent threads.
MailboxConcNext ==
    \E t \in Threads :
        \/ StartSendMessage(t, PlainSends, MaxRequests)
        \/ StartGetMessages(t, DrainInputs, MaxRequests)
        \/ SendEnqueue(t)
        \/ GetMessagesClear(t)
        \/ Respond(t)

SpecMailboxConc == Init /\ [][MailboxConcNext]_vars

\* The student responses and one plain message to ai.
ResponseSends == StudentSends \cup {Send("teacher", "ai", OtherMsg)}

\* Student responses (sent and injected), one after the other, around a plain
\* message to ai and drains of the ai mailbox.
ResponseNext ==
    \/ StartSendMessage(SeqThread, ResponseSends, MaxResponses)
    \/ StartInjectText(SeqThread, InjectInputs, MaxResponses)
    \/ StartGetMessages(SeqThread, {"ai"}, MaxResponses)
    \/ SendEnqueue(SeqThread)
    \/ GetMessagesClear(SeqThread)
    \/ HandlerStep(SeqThread)
    \/ Respond(SeqThread)

SpecResponse == Init /\ [][ResponseNext]_vars

\* The lesson packages and one plain message to ai.
LessonPlainSends == LessonSends \cup {Send("teacher", "ai", OtherMsg)}

\* Lesson packages, one after the other, around a plain message to ai and drains.
LessonNext ==
    \/ StartSendMessage(SeqThread, LessonPlainSends, MaxRequests)
    \/ StartGetMessages(SeqThread, {"ai"}, MaxRequests)
    \/ SendEnqueue(SeqThread)
    \/ GetMessagesClear(SeqThread)
    \/ LessonStep(SeqThread)
    \/ Respond(SeqThread)

SpecLesson == Init /\ [][LessonNext]_vars

\* Client log entries of every level, in either case, under a run or under none.
LogEntryInputs ==
    {LogEntry(level, run) : level \in {"", "info", "warn", "warning", "error", "ERROR"},
                            run \in {RunA, NoRun}} \cup {NoLogEntry}

\* Student responses and client log entries, one after the other.
RunLogNext ==
    \/ ResponseNext
    \/ LogEventEntry(SeqThread, LogEntryInputs, MaxResponses)

SpecRunLog == Init /\ [][RunLogNext]_vars

\* The characters of the texts the noise filter is tried on: letters in both cases,
\* a digit, a symbol and a blank.
NoiseAlphabet == {"a", "A", "b", "1", ".", " "}

\* Every text over the alphabet up to the length bound.
NoiseTexts == UNION {[1..k -> NoiseAlphabet] : k \in 0..MaxTextLen}

\* The filter is applied to one text after the other.
NoiseNext ==
    \/ LooksLikeNoise(SeqThread, NoiseTexts, MaxResponses)
    \/ Respond(SeqThread)

SpecNoise == Init /\ [][NoiseNext]_vars

ToReceiver == RawWord("receiver", FALSE, FALSE)

ToTransmitter == RawWord("transmitter", TRUE, TRUE)

Heartbeat == RawWord("heartbeat", FALSE, FALSE)

Offer == RawWord("offer", TRUE, TRUE)

\* What clients send to authenticate: ids and tokens the server handed out, the
\* tokens as issued or inside whitespace, and values it never handed out.
AuthInputs ==
    [pads |-> {FALSE}, token_pads |-> BOOLEAN, forged |-> {Id("nosuch", 0)},
     runs |-> {RunA}, sessions |-> MaxSessions, tos |-> {ToReceiver, ToTransmitter},
     types |-> {Heartbeat}, timeouts |-> {[ok |-> TRUE, ms |-> 0]}]

\* Sessions are created, joined and signalled, one request after the other, all
\* within the sessions' lifetime.
AuthNext ==
    \/ MirrorStarted
    \/ MirrorFailed
    \/ StartWalkieCreate(SeqThread, AuthInputs, MaxWalkieRequests)
    \/ StartWalkieJoin(SeqThread, AuthInputs, MaxWalkieRequests)
    \/ StartWalkiePush(SeqThread, AuthInputs, MaxWalkieRequests)
    \/ WalkiePrune(SeqThread)
    \/ WalkieCreateBody(SeqThread)
    \/ WalkieCreateLog(SeqThread)
    \/ WalkieJoinBody(SeqThread)
    \/ WalkieJoinLog(SeqThread)
    \/ WalkiePushBody(SeqThread)
    \/ WalkiePushLog(SeqThread)
    \/ Respond(SeqThread)

SpecWalkieAuth == Init /\ [][AuthNext]_vars

\* Clients that send back what the server handed out, the session ids and pair
\* codes as issued or inside whitespace.
CloseInputs ==
    [pads |-> BOOLEAN, token_pads |-> {FALSE}, forged |-> {}, runs |-> {RunA},
     sessions |-> MaxSessions, tos |-> {ToTransmitter}, types |-> {Heartbeat},
     timeouts |-> {[ok |-> TRUE, ms |-> 0]}]

\* Sessions are created, joined, signalled and closed, within their lifetime.
CloseNext ==
    \/ MirrorStarted
    \/ MirrorFailed
    \/ StartWalkieCreate(SeqThread, CloseInputs, MaxWalkieRequests)
    \/ StartWalkieJoin(SeqThread, CloseInputs, MaxWalkieRequests)
    \/ StartWalkiePush(SeqThread, CloseInputs, MaxWalkieRequests)
    \/ StartWalkieClose(SeqThread, CloseInputs, MaxWalkieRequests)
    \/ WalkiePrune(SeqThread)
    \/ WalkieCreateBody(SeqThread)
    \/ WalkieCreateLog(SeqThread)
    \/ WalkieJoinBody(SeqThread)
    \/ WalkieJoinLog(SeqThread)
    \/ WalkiePushBody(SeqThread)
    \/ WalkiePushLog(SeqThread)
    \/ WalkieCloseBody(SeqThread)
    \/ WalkieCloseLog(SeqThread)
    \/ Respond(SeqThread)

SpecWalkieClose == Init /\ [][CloseNext]_vars

\* Clients of one session that send back what the server handed out.
ExpiryInputs ==
    [pads |-> {FALSE}, token_pads |-> {FALSE}, forged |-> {}, runs |-> {RunA},
     sessions |-> 1, tos |-> {ToTransmitter}, types |-> {Heartbeat},
     timeouts |-> {[ok |-> FALSE, ms |-> 0]}]

\* Requests served one after the other while time passes beyond the session's TTL.
ExpiryNext ==
    \/ Tick(MaxClock)
    \/ MirrorStarted
    \/ MirrorFailed
    \/ StartWalkieCreate(SeqThread, ExpiryInputs, MaxExpiryRequests)
    \/ StartWalkieJoin(SeqThread, ExpiryInputs, MaxExpiryRequests)
    \/ StartWalkiePush(SeqThread, ExpiryInputs, MaxExpiryRequests)
    \/ StartWalkiePull(SeqThread, ExpiryInputs, MaxExpiryRequests)
    \/ StartWalkieClose(SeqThread, ExpiryInputs, MaxExpiryRequests)
    \/ WalkiePrune(SeqThread)
    \/ WalkieCreateBody(SeqThread)
    \/ WalkieCreateLog(SeqThread)
    \/ WalkieJoinBody(SeqThread)
    \/ WalkieJoinLog(SeqThread)
    \/ WalkiePushBody(SeqThread)
    \/ WalkiePushLog(SeqThread)
    \/ WalkiePullBody(SeqThread)
    \/ WalkiePullWait(SeqThread)
    \/ WalkieCloseBody(SeqThread)
    \/ WalkieCloseLog(SeqThread)
    \/ Respond(SeqThread)

SpecWalkieExpiry == Init /\ [][ExpiryNext]_vars

\* Pushes of every kind: to a role or to nobody, of a known type or not, with an
\* issued token or a forged one.
PushInputs ==
    [pads |-> {FALSE}, token_pads |-> {FALSE}, forged |-> {Id("nosuch", 0)},
     runs |-> {RunA}, sessions |-> 1,
     tos |-> {ToReceiver, ToTransmitter, RawWord("nobody", FALSE, FALSE)},
     types |-> {Offer, RawWord("bogus", FALSE, FALSE)},
     timeouts |-> {[ok |-> TRUE, ms |-> 0]}]

PushNext ==
    \/ Tick(MaxClock)
    \/ MirrorStarted
    \/ MirrorFailed
    \/ StartWalkieCreate(SeqThread, PushInputs, MaxExpiryRequests)
    \/ StartWalkiePush(SeqThread, PushInputs, MaxExpiryRequests)
    \/ WalkiePrune(SeqThread)
    \/ WalkieCreateBody(SeqThread)
    \/ WalkieCreateLog(SeqThread)
    \/ WalkiePushBody(SeqThread)
    \/ WalkiePushLog(SeqThread)
    \/ Respond(SeqThread)

SpecWalkiePush == Init /\ [][PushNext]_vars

\* One session's two peers: offers to either role, pulls with the shortest timeout.
DeliveryInputs ==
    [pads |-> {FALSE}, token_pads |-> {FALSE}, forged |-> {}, runs |-> {RunA},
     sessions |-> 1, tos |-> {ToReceiver, ToTransmitter},
     types |-> {Offer}, timeouts |-> {[ok |-> TRUE, ms |-> 0]}]

\* Signals pushed and pulled while the session lives: time passes just long enough
\* for the shortest pull to run out.
DeliveryNext ==
    \/ Tick(WALKIE_PULL_TIMEOUT_MIN + 1)
    \/ MirrorStarted
    \/ MirrorFailed
    \/ StartWalkieCreate(SeqThread, DeliveryInputs, MaxWalkieRequests)
    \/ StartWalkieJoin(SeqThread, DeliveryInputs, MaxWalkieRequests)
    \/ StartWalkiePush(SeqThread, DeliveryInputs, MaxWalkieRequests)
    \/ StartWalkiePull(SeqThread, DeliveryInputs, MaxWalkieRequests)
    \/ WalkiePrune(SeqThread)
    \/ WalkieCreateBody(SeqThread)
    \/ WalkieCreateLog(SeqThread)
    \/ WalkieJoinBody(SeqThread)
    \/ WalkieJoinLog(SeqThread)
    \/ WalkiePushBody(SeqThread)
    \/ WalkiePushLog(SeqThread)
    \/ WalkiePullBody(SeqThread)
    \/ WalkiePullWait(SeqThread)
    \/ Respond(SeqThread)

SpecWalkieDelivery == Init /\ [][DeliveryNext]_vars

\* The thread that serves the other requests while SeqThread serves a pull.
OtherThread == "t2"

\* Pulls run on one thread while the session is created and closed on another, and
\* time passes beyond the session's TTL.
PollNext ==
    \/ Tick(MaxClock)
    \/ MirrorStarted
    \/ MirrorFailed
    \/ StartWalkieCreate(OtherThread, ExpiryInputs, MaxExpiryRequests)
    \/ StartWalkieClose(OtherThread, ExpiryInputs, MaxExpiryRequests)
    \/ StartWalkiePull(SeqThread, ExpiryInputs, MaxExpiryRequests)
    \/ \E t \in Threads :
        \/ WalkiePrune(t)
        \/ WalkieCreateBody(t)
        \/ WalkieCreateLog(t)
        \/ WalkiePullBody(t)
        \/ WalkiePullWait(t)
        \/ WalkieCloseBody(t)
        \/ WalkieCloseLog(t)
        \/ Respond(t)

SpecWalkiePoll == Init /\ [][PollNext]_vars

\* One session's peers: the receiver sends offers and heartbeats to the transmitter,
\* which pulls them.
QueueInputs ==
    [pads |-> {FALSE}, token_pads |-> {FALSE}, forged |-> {}, runs |-> {RunA},
     sessions |-> 1, tos |-> {ToTransmitter}, types |-> {Offer, Heartbeat},
     timeouts |-> {[ok |-> TRUE, ms |-> 0]}]

\* Enough pushes in a row, within the session's lifetime, to overflow a queue
\* before it is pulled.
QueueNext ==
    \/ MirrorStarted
    \/ StartWalkieCreate(SeqThread, QueueInputs, MaxQueueRequests)
    \/ StartWalkieJoin(SeqThread, QueueInputs, MaxQueueRequests)
    \/ StartWalkiePush(SeqThread, QueueInputs, MaxQueueRequests)
    \/ StartWalkiePull(SeqThread, QueueInputs, MaxQueueRequests)
    \/ WalkiePrune(SeqThread)
    \/ WalkieCreateBody(SeqThread)
    \/ WalkieCreateLog(SeqThread)
    \/ WalkieJoinBody(SeqThread)
    \/ WalkieJoinLog(SeqThread)
    \/ WalkiePushBody(SeqThread)
    \/ WalkiePushLog(SeqThread)
    \/ WalkiePullBody(SeqThread)
    \/ WalkiePullWait(SeqThread)
    \/ Respond(SeqThread)

SpecWalkieQueue == Init /\ [][QueueNext]_vars

\* Receivers of several sessions that close them, the session id as issued or
\* inside whitespace.
IndexInputs ==
    [pads |-> BOOLEAN, token_pads |-> {FALSE}, forged |-> {}, runs |-> {RunA},
     sessions |-> MaxSessions, tos |-> {ToTransmitter}, types |-> {Heartbeat},
     timeouts |-> {[ok |-> TRUE, ms |-> 0]}]

\* Sessions are created and closed while time passes beyond their TTL.
IndexNext ==
    \/ Tick(MaxClock)
    \/ MirrorStarted
    \/ StartWalkieCreate(SeqThread, IndexInputs, MaxExpiryRequests)
    \/ StartWalkieClose(SeqThread, IndexInputs, MaxExpiryRequests)
    \/ WalkiePrune(SeqThread)
    \/ WalkieCreateBody(SeqThread)
    \/ WalkieCreateLog(SeqThread)
    \/ WalkieCloseBody(SeqThread)
    \/ WalkieCloseLog(SeqThread)
    \/ Respond(SeqThread)

SpecWalkieIndex == Init /\ [][IndexNext]_vars

\* Receivers that signal the transmitter or a role that does not exist, and close
\* their sessions, the session id as issued or inside whitespace.
SweepInputs ==
    [pads |-> BOOLEAN, token_pads |-> {FALSE}, forged |-> {}, runs |-> {RunA},
     sessions |-> MaxSessions,
     tos |-> {ToTransmitter, RawWord("nobody", FALSE, FALSE)},
     types |-> {Heartbeat}, timeouts |-> {[ok |-> TRUE, ms |-> 0]}]

\* Sessions are created, signalled and closed while time passes beyond their TTL.
SweepNext ==
    \/ Tick(MaxClock)
    \/ MirrorStarted
    \/ StartWalkieCreate(SeqThread, SweepInputs, MaxExpiryRequests)
    \/ StartWalkiePush(SeqThread, SweepInputs, MaxExpiryRequests)
    \/ StartWalkieClose(SeqThread, SweepInputs, MaxExpiryRequests)
    \/ WalkiePrune(SeqThread)
    \/ WalkieCreateBody(SeqThread)
    \/ WalkieCreateLog(SeqThread)
    \/ WalkiePushBody(SeqThread)
    \/ WalkiePushLog(SeqThread)
    \/ WalkieCloseBody(SeqThread)
    \/ WalkieCloseLog(SeqThread)
    \/ Respond(SeqThread)

SpecWalkieSweep == Init /\ [][SweepNext]_vars

\* One session's two peers: the receiver sends heartbeats to the transmitter.
LockInputs ==
    [pads |-> {FALSE}, token_pads |-> {FALSE}, forged |-> {}, runs |-> {RunA},
     sessions |-> 1, tos |-> {ToTransmitter}, types |-> {Heartbeat},
     timeouts |-> {[ok |-> TRUE, ms |-> 0]}]

\* One thread serves creates, joins, pushes and pulls while the other serves pulls
\* and closes, within the session's lifetime.
LockNext ==
    \/ MirrorStarted
    \/ StartWalkieCreate(SeqThread, LockInputs, MaxLockRequests)
    \/ StartWalkieJoin(SeqThread, LockInputs, MaxLockRequests)
    \/ StartWalkiePush(SeqThread, LockInputs, MaxLockRequests)
    \/ StartWalkiePull(SeqThread, LockInputs, MaxLockRequests)
    \/ StartWalkiePull(OtherThread, LockInputs, MaxLockRequests)
    \/ StartWalkieClose(OtherThread, LockInputs, MaxLockRequests)
    \/ \E t \in Threads :
        \/ WalkiePrune(t)
        \/ WalkieCreateBody(t)
        \/ WalkieCreateLog(t)
        \/ WalkieJoinBody(t)
        \/ WalkieJoinLog(t)
        \/ WalkiePushBody(t)
        \/ WalkiePushLog(t)
        \/ WalkiePullBody(t)
        \/ WalkiePullWait(t)
        \/ WalkieCloseBody(t)
        \/ WalkieCloseLog(t)
        \/ Respond(t)

SpecWalkieLock == Init /\ [][LockNext]_vars

(* ------------- _pipeline_upsert_segment, statement by statement ------------- *)

\* The positions of a thread inside _pipeline_upsert_segment.
UpsertLabels == {"pu_get", "pu_store", "pu_append", "pu_len", "pu_pop", "pu_evict",
                 "pu_update", "pu_last"}

\* The row object thread t holds: the one stored in the map under its id, or an
\* object the map no longer refers to.
HeldRow(t) ==
    IF req[t].attached THEN pipeline_segments_by_id[req[t].segment_id] ELSE req[t].row

\* The map stops referring to the row stored under sid: the threads that hold that
\* object keep it, with its fields as they are.
Detach(rq, sid) ==
    [u \in Threads |->
        IF pc[u] \in UpsertLabels /\ rq[u].attached /\ rq[u].segment_id = sid
        THEN [rq[u] EXCEPT !.attached = FALSE, !.row = pipeline_segments_by_id[sid]]
        ELSE rq[u]]

\* The call: "if not segment_id: return None", else on to the lookup.
StartUpsert(t, sids, updates, max) ==
    /\ CanStart(t, max)
    /\ \E sid \in sids, upd \in updates :
        Goto(t, IF sid = NoSeg THEN "done" ELSE "pu_get",
             [NewReq("pipeline_upsert_segment") EXCEPT !.segment_id = sid,
                                                       !.updates = upd])
    /\ nreq' = nreq + 1
    /\ UNCHANGED walkieVars
    /\ UNCHANGED <<queueVars, logVars, pipeVars, id_counter, delivered, runGhosts,
                   last_done>>

\* row = _pipeline_segments_by_id.get(sid); a new row object when there is none.
UpsertGet(t) ==
    /\ pc[t] = "pu_get"
    /\ LET sid == req[t].segment_id
       IN  IF sid \in DOMAIN pipeline_segments_by_id
           THEN Goto(t, "pu_update", [req[t] EXCEPT !.attached = TRUE])
           ELSE Goto(t, "pu_store", [req[t] EXCEPT !.row = NewRow(sid)])
    /\ UNCHANGED walkieVars
    /\ UNCHANGED <<queueVars, logVars, pipeVars, id_counter, nreq, delivered, runGhosts,
                   last_done>>

\* _pipeline_segments_by_id[sid] = row
UpsertStore(t) ==
    /\ pc[t] = "pu_store"
    /\ LET sid == req[t].segment_id
           rq == IF sid \in DOMAIN pipeline_segments_by_id THEN Detach(req, sid) ELSE req
       IN  /\ pipeline_segments_by_id' = Put(pipeline_segments_by_id, sid, req[t].row)
           /\ req' = [rq EXCEPT ![t].attached = TRUE]
           /\ pc' = [pc EXCEPT ![t] = "pu_append"]
    /\ UNCHANGED walkieVars
    /\ UNCHANGED <<queueVars, logVars, pipeline_segment_order, pipeline_last_ids,
                   id_counter, nreq, delivered, runGhosts, last_done>>

\* _pipeline_segment_order.append(sid)
UpsertAppend(t) ==
    /\ pc[t] = "pu_append"
    /\ pipeline_segment_order' = Append(pipeline_segment_order, req[t].segment_id)
    /\ Goto(t, "pu_len", req[t])
    /\ UNCHANGED walkieVars
    /\ UNCHANGED <<queueVars, logVars, pipeline_segments_by_id, pipeline_last_ids,
                   id_counter, nreq, delivered, runGhosts, last_done>>

\* if len(_pipeline_segment_order) > _PIPELINE_SEGMENTS_MAX
UpsertLen(t) ==
    /\ pc[t] = "pu_len"
    /\ Goto(t, IF Len(pipeline_segment_order) > PIPELINE_SEGMENTS_MAX
               THEN "pu_pop" ELSE "pu_update", req[t])
    /\ UNCHANGED walkieVars
    /\ UNCHANGED <<queueVars, logVars, pipeVars, id_counter, nreq, delivered, runGhosts,
                   last_done>>

\* stale = _pipeline_segment_order.pop(0)
UpsertPop(t) ==
    /\ pc[t] = "pu_pop"
    /\ pipeline_segment_order # <<>>
    /\ pipeline_segment_order' = Tail(pipeline_segment_order)
    /\ Goto(t, "pu_evict", [req[t] EXCEPT !.stale = Head(pipeline_segment_order)])
    /\ UNCHANGED walkieVars
    /\ UNCHANGED <<queueVars, logVars, pipeline_segments_by_id, pipeline_last_ids,
                   id_counter, nreq, delivered, runGhosts, last_done>>

\* An eviction that leaves the stale row in the map.
UpsertEvictKeepRow(t) ==
    /\ pc[t] = "pu_evict"
    /\ Goto(t, "pu_update", req[t])
    /\ UNCHANGED walkieVars
    /\ UNCHANGED <<queueVars, logVars, pipeVars, id_counter, nreq, delivered, runGhosts,
                   last_done>>

\* _pipeline_segments_by_id.pop(stale, None)
UpsertEvict(t) ==
    /\ pc[t] = "pu_evict"
    /\ LET stale == req[t].stale
           rq == IF stale \in DOMAIN pipeline_segments_by_id
                 THEN Detach(req, stale) ELSE req
       IN  /\ pipeline_segments_by_id' = Remove(pipeline_segments_by_id, stale)
           /\ req' = rq
           /\ pc' = [pc EXCEPT ![t] = "pu_update"]
    /\ UNCHANGED walkieVars
    /\ UNCHANGED <<queueVars, logVars, pipeline_segment_order, pipeline_last_ids,
                   id_counter, nreq, delivered, runGhosts, last_done>>

\* The loop over the updates and row["updated_ts"] = now_ms: stores into the row
\* object the thread holds, seen through the map only while the map refers to it.
UpsertUpdate(t) ==
    /\ pc[t] = "pu_update"
    /\ LET row == ApplyUpdates(HeldRow(t), req[t].updates)
       IN  IF req[t].attached
           THEN /\ pipeline_segments_by_id' =
                       Put(pipeline_segments_by_id, req[t].segment_id, row)
                /\ Goto(t, "pu_last", req[t])
           ELSE /\ Goto(t, "pu_last", [req[t] EXCEPT !.row = row])
                /\ UNCHANGED pipeline_segments_by_id
    /\ UNCHANGED walkieVars
    /\ UNCHANGED <<queueVars, logVars, pipeline_segment_order, pipeline_last_ids,
                   id_counter, nreq, delivered, runGhosts, last_done>>

\* A side index that keeps the first segment seen in each status.
UpsertLastKeepFirst(t) ==
    /\ pc[t] = "pu_last"
    /\ LET row == HeldRow(t)
           sid == req[t].segment_id
       IN  pipeline_last_ids' =
               [s \in TrackedStatuses |->
                   IF s \in {row.status, row.sent_status} /\ pipeline_last_ids[s] = NoSeg
                   THEN sid ELSE pipeline_last_ids[s]]
    /\ Goto(t, "done", req[t])
    /\ UNCHANGED walkieVars
    /\ UNCHANGED <<queueVars, logVars, pipeline_segments_by_id, pipeline_segment_order,
                   id_counter, nreq, delivered, runGhosts, last_done>>

\* The two stores into _pipeline_last_ids, and the return.
UpsertLast(t) ==
    /\ pc[t] = "pu_last"
    /\ LET row == HeldRow(t)
           sid == req[t].segment_id
           last1 == IF row.status \in TrackedStatuses
                    THEN [pipeline_last_ids EXCEPT ![row.status] = sid]
                    ELSE pipeline_last_ids
       IN  pipeline_last_ids' = IF row.sent_status \in TrackedStatuses
                                THEN [last1 EXCEPT ![row.sent_status] = sid] ELSE last1
    /\ Goto(t, "done", req[t])
    /\ UNCHANGED walkieVars
    /\ UNCHANGED <<queueVars, logVars, pipeline_segments_by_id, pipeline_segment_order,
                   id_counter, nreq, delivered, runGhosts, last_done>>

\* The segment ids and keyword arguments of the concurrent calls.
UpsertSids == {NoSeg} \cup {Id("s", i) : i \in 1..(PIPELINE_SEGMENTS_MAX + 1)}

UpsertInputs == {[status |-> "captured", sent_status |-> "captured"], SentUpdates}

\* Request threads call _pipeline_upsert_segment at the same time.
TrackerNext ==
    \/ \E t \in Threads :
        \/ StartUpsert(t, UpsertSids, UpsertInputs, MaxUpserts)
        \/ UpsertGet(t) \/ UpsertStore(t) \/ UpsertAppend(t) \/ UpsertLen(t)
        \/ UpsertPop(t) \/ UpsertEvict(t) \/ UpsertUpdate(t) \/ UpsertLast(t)
        \/ Respond(t)

SpecTracker == Init /\ [][TrackerNext]_vars

(* ------- _log_event, _append_run_event and _flush_run_to_disk in steps ------- *)

\* The positions of a thread between its append to the run's bucket and the end of
\* its flush.
RecordLabels == {"rec_append", "fl_read", "fl_open", "fl_w1", "fl_w2", "fl_replace"}

\* tmp = f"{path}.tmp"
TmpPath(path) == [pfx |-> "tmp", n |-> path.n, of |-> path]

\* A stretch of a file that no write has filled.
Hole == [flush |-> 0, part |-> 0, run_id |-> NoRun, status |-> "none", events |-> <<>>]

\* What one write call of a flush puts into the file: the head of the serialised
\* document (run id and summary) or its rest (the events).
Chunk(flush, part, run_id, status, events) ==
    [flush |-> flush, part |-> part, run_id |-> run_id, status |-> status,
     events |-> events]

\* f.write at position pos of a file: what lies before an unfilled stretch stays.
WriteAt(content, pos, chunk) ==
    [i \in 1..(IF Len(content) > pos THEN Len(content) ELSE pos) |->
        IF i = pos THEN chunk ELSE IF i <= Len(content) THEN content[i] ELSE Hole]

\* os.replace(tmp, path) as the open files of the other threads see it: a file
\* object open on tmp now writes into path, one open on the old path into a file
\* that has no name any more.
Renamed(rq, tmp, path) ==
    [u \in Threads |->
        IF rq[u].fd = tmp THEN [rq[u] EXCEPT !.fd = path]
        ELSE IF rq[u].fd = path THEN [rq[u] EXCEPT !.fd = Id("unlinked", 0)]
        ELSE rq[u]]

\* _log_event up to its call of _append_run_event: the entry goes to the debug ring
\* buffer and its run id is resolved.
StartRecord(t, levels, runs, max) ==
    /\ CanStart(t, max)
    /\ \E level \in levels, run \in runs :
        LET entry == Entry(level, <<"client", "log", "entry">>, run)
            L1 == [LogState EXCEPT
                      !.event_log = TrimFront(Append(@, entry), EVENT_LOG_MAX)]
            r == safe_run_id(L1, run)
        IN  /\ CommitLog(r.L)
            /\ Goto(t, "rec_append",
                    [NewReq("log_event") EXCEPT !.raw_run = run, !.flow_run_id = r.rid,
                                                !.ev = entry, !.flush_id = nreq + 1])
    /\ nreq' = nreq + 1
    /\ UNCHANGED walkieVars
    /\ UNCHANGED <<queueVars, pipeVars, id_counter, delivered, runGhosts, last_done>>

\* _append_run_event, lines 367-373: the bucket is looked up or made, the entry
\* appended and the bucket trimmed.
RecordAppend(t) ==
    /\ pc[t] = "rec_append"
    /\ LET rid == req[t].flow_run_id
           old == IF rid \in DOMAIN run_events_by_id THEN run_events_by_id[rid] ELSE <<>>
       IN  run_events_by_id' =
               Put(run_events_by_id, rid, TrimFront(Append(old, req[t].ev), RUN_EVENTS_MAX))
    /\ Goto(t, "fl_read", req[t])
    /\ UNCHANGED walkieVars
    /\ UNCHANGED <<queueVars, event_log, run_files_by_id, run_docs, auto_run_next_idx,
                   legacy_run_id_map, audio_bridge_ready_logged, first_idx, pipeVars,
                   id_counter, nreq, delivered, runGhosts, last_done>>

\* _flush_run_to_disk, lines 320-341: the path is looked up (and cached), and the
\* summary is computed from the bucket as it is now.
FlushRead(t) ==
    /\ pc[t] = "fl_read"
    /\ LET rid == req[t].flow_run_id
           events == run_events_by_id[rid]
       IN  /\ run_files_by_id' = Put(run_files_by_id, rid, run_file_for_id(LogState, rid))
           /\ Goto(t, "fl_open", [req[t] EXCEPT !.summary = RunStatus(events)])
    /\ UNCHANGED walkieVars
    /\ UNCHANGED <<queueVars, event_log, run_events_by_id, run_docs, auto_run_next_idx,
                   legacy_run_id_map, audio_bridge_ready_logged, first_idx, pipeVars,
                   id_counter, nreq, delivered, runGhosts, last_done>>

\* open(tmp, "w"): the file of that name is made, or emptied when there is one.
FlushOpen(t) ==
    /\ pc[t] = "fl_open"
    /\ LET tmp == TmpPath(run_files_by_id[req[t].flow_run_id])
       IN  /\ run_docs' = Put(run_docs, tmp, <<>>)
           /\ Goto(t, "fl_w1", [req[t] EXCEPT !.fd = tmp])
    /\ UNCHANGED walkieVars
    /\ UNCHANGED <<queueVars, event_log, run_events_by_id, run_files_by_id,
                   auto_run_next_idx, legacy_run_id_map, audio_bridge_ready_logged,
                   first_idx, pipeVars, id_counter, nreq, delivered, runGhosts, last_done>>

\* A write call of thread t: into the file its file object is open on, whatever
\* name that file has by now.
Written(docs, t, pos, chunk) ==
    IF req[t].fd \in DOMAIN docs THEN [docs EXCEPT ![req[t].fd] = WriteAt(@, pos, chunk)]
    ELSE docs

\* json.dump, first write: the head of the document with the summary of line 341.
FlushWriteHead(t) ==
    /\ pc[t] = "fl_w1"
    /\ run_docs' = Written(run_docs, t, 1,
                           Chunk(req[t].flush_id, 1, req[t].flow_run_id,
                                 req[t].summary, <<>>))
    /\ Goto(t, "fl_w2", req[t])
    /\ UNCHANGED walkieVars
    /\ UNCHANGED <<queueVars, event_log, run_events_by_id, run_files_by_id,
                   auto_run_next_idx, legacy_run_id_map, audio_bridge_ready_logged,
                   first_idx, pipeVars, id_counter, nreq, delivered, runGhosts, last_done>>

\* json.dump, last write and close: out["events"] is the bucket itself, serialised
\* as it is when the encoder reaches it.
FlushWriteEvents(t) ==
    /\ pc[t] = "fl_w2"
    /\ run_docs' = Written(run_docs, t, 2,
                           Chunk(req[t].flush_id, 2, req[t].flow_run_id, "none",
                                 run_events_by_id[req[t].flow_run_id]))
    /\ Goto(t, "fl_replace", [req[t] EXCEPT !.fd = NoId])
    /\ UNCHANGED walkieVars
    /\ UNCHANGED <<queueVars, event_log, run_events_by_id, run_files_by_id,
                   auto_run_next_idx, legacy_run_id_map, audio_bridge_ready_logged,
                   first_idx, pipeVars, id_counter, nreq, delivered, runGhosts, last_done>>

\* os.replace(tmp, path); when tmp is gone it raises, and _append_run_event prints
\* the error and returns.
FlushReplace(t) ==
    /\ pc[t] = "fl_replace"
    /\ LET path == run_files_by_id[req[t].flow_run_id]
           tmp == TmpPath(path)
       IN  IF tmp \in DOMAIN run_docs
           THEN /\ run_docs' = Put(Remove(run_docs, tmp), path, run_docs[tmp])
                /\ req' = Renamed(req, tmp, path)
                /\ pc' = [pc EXCEPT ![t] = "done"]
           ELSE /\ Goto(t, "done", [req[t] EXCEPT !.flush_failed = TRUE])
                /\ UNCHANGED run_docs
    /\ UNCHANGED walkieVars
    /\ UNCHANGED <<queueVars, event_log, run_events_by_id, run_files_by_id,
                   auto_run_next_idx, legacy_run_id_map, audio_bridge_ready_logged,
                   first_idx, pipeVars, id_counter, nreq, delivered, runGhosts, last_done>>

\* The levels and the run of the recorded events.
RecordLevels == {"error", "info"}

RecordRuns == {RunA}

\* Request threads record events of one run at the same time.
RecordNext ==
    \/ \E t \in Threads :
        \/ StartRecord(t, RecordLevels, RecordRuns, MaxRecords)
        \/ RecordAppend(t) \/ FlushRead(t) \/ FlushOpen(t)
        \/ FlushWriteHead(t) \/ FlushWriteEvents(t) \/ FlushReplace(t)
        \/ Respond(t)

SpecRecord == Init /\ [][RecordNext]_vars

\* The keyword arguments of the callers: each names a tracked status twice, as
\* status and as sent_status.
CallerUpdates == {[status |-> s, sent_status |-> s] : s \in TrackedStatuses}

\* One request thread calls _pipeline_upsert_segment time after time.
SeqTrackerNext ==
    \/ StartUpsert(SeqThread, UpsertSids, CallerUpdates, MaxUpserts)
    \/ UpsertGet(SeqThread) \/ UpsertStore(SeqThread) \/ UpsertAppend(SeqThread)
    \/ UpsertLen(SeqThread) \/ UpsertPop(SeqThread) \/ UpsertEvict(SeqThread)
    \/ UpsertUpdate(SeqThread) \/ UpsertLast(SeqThread)
    \/ Respond(SeqThread)

SpecTrackerSeq == Init /\ [][SeqTrackerNext]_vars

(* ---------------------- _next_auto_run_id in steps ---------------------- *)

\* The positions of a thread that holds _auto_run_lock.
AutoRunLocked == {"nar_read", "nar_incr"}

\* A request that named no run calls _next_auto_run_id.
StartAlloc(t, max) ==
    /\ CanStart(t, max)
    /\ Goto(t, "nar_lock", NewReq("next_auto_run_id"))
    /\ nreq' = nreq + 1
    /\ UNCHANGED walkieVars
    /\ UNCHANGED <<queueVars, logVars, pipeVars, id_counter, delivered, runGhosts,
                   last_done>>

\* An allocator that enters without waiting for the lock.
AllocEnterUnlocked(t) ==
    /\ pc[t] = "nar_lock"
    /\ Goto(t, "nar_read", req[t])
    /\ UNCHANGED walkieVars
    /\ UNCHANGED <<queueVars, logVars, pipeVars, id_counter, nreq, delivered, runGhosts,
                   last_done>>

\* with _auto_run_lock: the thread waits until no other thread holds the lock.
AllocEnter(t) ==
    /\ pc[t] = "nar_lock"
    /\ \A u \in Threads \ {t} : pc[u] \notin AutoRunLocked
    /\ Goto(t, "nar_read", req[t])
    /\ UNCHANGED walkieVars
    /\ UNCHANGED <<queueVars, logVars, pipeVars, id_counter, nreq, delivered, runGhosts,
                   last_done>>

\* Lines 125-127: the counter is set from the directory scan when it is still None,
\* and rid is formed from it.
AllocRead(t) ==
    /\ pc[t] = "nar_read"
    /\ LET idx == IF auto_run_next_idx = 0 THEN scan_next_log_index(run_docs)
                  ELSE auto_run_next_idx
       IN  /\ auto_run_next_idx' = idx
           /\ first_idx' = IF first_idx = 0 THEN idx ELSE first_idx
           /\ Goto(t, "nar_incr", [req[t] EXCEPT !.flow_run_id = LogId(idx)])
    /\ omitted_allocs' = omitted_allocs + 1
    /\ UNCHANGED walkieVars
    /\ UNCHANGED <<queueVars, event_log, run_events_by_id, run_files_by_id, run_docs,
                   legacy_run_id_map, audio_bridge_ready_logged, pipeVars, id_counter,
                   nreq, delivered, resolutions, last_done>>

\* Lines 128-129: the counter is advanced, rid returned and the lock released.
AllocIncr(t) ==
    /\ pc[t] = "nar_incr"
    /\ auto_run_next_idx' = auto_run_next_idx + 1
    /\ Goto(t, "done", req[t])
    /\ UNCHANGED walkieVars
    /\ UNCHANGED <<queueVars, event_log, run_events_by_id, run_files_by_id, run_docs,
                   legacy_run_id_map, audio_bridge_ready_logged, first_idx, pipeVars,
                   id_counter, nreq, delivered, runGhosts, last_done>>

\* Request threads allocate run ids at the same time.
AllocNext ==
    \/ \E t \in Threads :
        \/ StartAlloc(t, MaxAllocs)
        \/ AllocEnter(t) \/ AllocRead(t) \/ AllocIncr(t)
        \/ Respond(t)

SpecAlloc == Init /\ [][AllocNext]_vars

(* --------------------- a transmitter that keeps pulling ---------------------- *)

\* One session; its receiver signals the transmitter.
LiveInputs ==
    [pads |-> {FALSE}, token_pads |-> {FALSE}, forged |-> {}, runs |-> {RunA},
     sessions |-> 1, tos |-> {ToTransmitter}, types |-> {Offer},
     timeouts |-> {[ok |-> TRUE, ms |-> 0]}]

\* The requests that set a session up: its create, then its join.
SetupRequests == 2 * LiveInputs.sessions

\* walkie_signal_pull called by the transmitter of a session, again and again: the
\* call of StartWalkiePull with the session's id and its current transmitter token.
TransmitterPulls(t, cfg) ==
    /\ pc[t] = "idle"
    /\ \E sid \in DOMAIN walkie_sessions_by_id, timeout_ms \in cfg.timeouts :
        /\ walkie_sessions_by_id[sid].transmitter_token # NoId
        /\ LET r0 == NewWalkieReq("walkie_signal_pull",
                                  [NoWalkieArgs EXCEPT
                                      !.session_id = Raw(sid, FALSE),
                                      !.token = Raw(walkie_sessions_by_id[sid]
                                                        .transmitter_token, FALSE),
                                      !.timeout_ms = timeout_ms, !.start = now,
                                      !.deadline = now + ClampTimeout(timeout_ms)])
           IN  IF WalkieBlocked
               THEN WalkieDone(t, r0, WalkieError(503, "walkie_tls_unavailable"))
               ELSE Goto(t, "w_prune", r0)
    /\ UNCHANGED <<brokerVars, logVars, runGhosts, nreq, walkieVars>>

\* The steps of the pulling thread.
PullerSteps(t) ==
    \/ TransmitterPulls(t, LiveInputs)
    \/ WalkiePrune(t)
    \/ WalkiePullBody(t)
    \/ WalkiePullWait(t)
    \/ Respond(t)

\* The steps of the thread that serves create, join and push, once a request is in.
PusherSteps(t) ==
    \/ WalkiePrune(t)
    \/ WalkieCreateBody(t) \/ WalkieCreateLog(t)
    \/ WalkieJoinBody(t) \/ WalkieJoinLog(t)
    \/ WalkiePushBody(t) \/ WalkiePushLog(t)
    \/ Respond(t)

\* A session is created, then joined, then signalled on one thread while its
\* transmitter pulls on the other; the clock stops before the session can expire and nobody
\* closes it.
LiveNext ==
    \/ Tick(WALKIE_SESSION_TTL)
    \/ MirrorStarted
    \/ StartWalkieCreate(OtherThread, LiveInputs, LiveInputs.sessions)
    \/ StartWalkieJoin(OtherThread, LiveInputs, SetupRequests)
    \/ StartWalkiePush(OtherThread, LiveInputs, SetupRequests + MaxLivePushes)
    \/ PusherSteps(OtherThread)
    \/ PullerSteps(SeqThread)

\* The locked section of create, join and push: the body that ends with the
\* release of _walkie_lock.
PusherLocked(t) ==
    \/ WalkieCreateBody(t)
    \/ WalkieJoinBody(t)
    \/ WalkiePushBody(t)

\* The server runs every request thread: the transmitter's thread takes its next
\* step whenever it can and calls pull again after every answer, and a thread
\* that holds _walkie_lock runs on to its release.
SpecWalkieLive ==
    /\ Init /\ [][LiveNext]_vars
    /\ WF_vars(PullerSteps(SeqThread))
    /\ WF_vars(PusherLocked(OtherThread))

(* ------------------- run ids named by callers and allocated ------------------- *)

\* A caller that names a run the way the allocator does.
CallerLogRun == LogId(2)

\* The same name in capitals: another run id.
ShoutedLogRun == Id("LOG", 2)

\* Student responses that name no run, one that names ShoutedLogRun, with audio,
\* and one that names CallerLogRun, which is noise.
RunIdSends ==
    {Send("stt", "ai", m) :
        m \in {StudentMsg(TextOk, MetaIn(NoRun, NoSeg, "none")),
               StudentMsg(TextOk, MetaIn(ShoutedLogRun, NoSeg, "in.wav")),
               StudentMsg(TextDots, MetaIn(CallerLogRun, S1, "none"))}}

RunIdInjects == {[text |-> TextOk, run |-> NoRun]}

\* Student responses, sent and injected, one after the other.
RunIdNext ==
    \/ StartSendMessage(SeqThread, RunIdSends, MaxRequests)
    \/ StartInjectText(SeqThread, RunIdInjects, MaxRequests)
    \/ HandlerStep(SeqThread)
    \/ Respond(SeqThread)

SpecRunIds == Init /\ [][RunIdNext]_vars

(* ------------------------------- claims ------------------------------- *)

Count(q, x) == Cardinality({i \in 1..Len(q) : q[i] = x})

\* A drain of a known role has built its response.
DrainDone(t) == pc[t] = "done" /\ req[t].op = "get_messages" /\ req[t].receiver \in Roles

\* C1: with requests served one after the other, a drain of a role returns exactly
\* the envelopes sent to that role since its previous drain (since the start, when
\* there was none), in the order they were sent, and leaves the mailbox empty: a
\* drain that directly follows a drain of the same role returns the empty list.
C1_DrainReturnsEnqueuedInOrder ==
    \A t \in Threads :
        DrainDone(t) =>
            /\ req[t].messages = req[t].expected
            /\ message_queues_by_role[req[t].receiver] = <<>>
            /\ (last_done = [op |-> "get_messages", receiver |-> req[t].receiver]
                    => req[t].messages = <<>>)

\* A drain has returned two envelopes, sent by two requests.
C1_Witness == \E t \in Threads : DrainDone(t) /\ Len(req[t].messages) = 2

\* C2: every envelope appended to a mailbox is either still in a mailbox or was
\* returned by a drain, and by one drain only: none is lost, none is returned twice.
C2_NoEnvelopeLostOrDuplicated ==
    \A k \in 1..enq_count :
        Count(delivered, k)
            + Cardinality({<<r, i>> \in Roles \X (1..enq_count) :
                              i <= Len(message_queues_by_role[r])
                                  /\ message_queues_by_role[r][i].tag = k}) = 1

\* The Response Handler has returned ok to its caller (enqueue_message or
\* inject_student_text) for a student_response routed to ai.
HandlerReturned(t) ==
    /\ pc[t] = AfterHandler(req[t])
    /\ req[t].receiver = "ai"
    /\ req[t].message.kind = "student_response"
    /\ req[t].result.code = 200

NonNoise(t) == ~looks_like_noise(req[t].message.text)

Last(q) == q[Len(q)]

\* The request of thread t has appended exactly the envelopes added to the ai
\* mailbox, n of them, and no mailbox changed otherwise.
AppendedToAi(t, n) ==
    LET q == message_queues_by_role["ai"]
        q0 == req[t].q0
    IN  /\ Len(q) = Len(q0["ai"]) + n
        /\ message_queues_by_role =
               [q0 EXCEPT !["ai"] = @ \o SubSeq(q, Len(q) - n + 1, Len(q))]

\* C3: when the handler returns for a non-noise student_response, it has appended
\* exactly one envelope to the ai mailbox and changed no other mailbox; the envelope
\* is a student_response whose id and meta.segment_id are the resolved segment id
\* (the caller's, when it gave one), with meta.flow_run_id set and meta.finalized
\* true; the segment has status sent and the result is ok with dropped = false.
C3_NonNoiseResponseDelivered ==
    \A t \in Threads :
        HandlerReturned(t) /\ NonNoise(t) =>
            LET r == req[t]
                e == Last(message_queues_by_role["ai"])
                given == r.message.meta.segment_id
            IN  /\ AppendedToAi(t, 1)
                /\ e.from = r.sender
                /\ e.message.kind = "student_response"
                /\ r.result.segment_id # NoSeg
                /\ given # NoSeg => r.result.segment_id = given
                /\ e.message.id = r.result.segment_id
                /\ e.message.meta.segment_id = r.result.segment_id
                /\ r.result.flow_run_id # NoRun
                /\ e.message.meta.flow_run_id = r.result.flow_run_id
                /\ e.message.meta.finalized
                /\ StatusOf(PipelineState, r.result.segment_id) = "sent"
                /\ ~r.result.dropped

\* A non-noise response that named its segment was delivered behind an earlier envelope.
C3_Witness ==
    \E t \in Threads :
        /\ HandlerReturned(t) /\ NonNoise(t)
        /\ req[t].message.meta.segment_id = S1
        /\ Len(message_queues_by_role["ai"]) = 2

DroppedNoiseEntry(run) == Entry("warn", <<"student", "response", "dropped", "noise">>, run)

\* C4: when the handler returns for a student_response whose text is noise, the
\* segment has status dropped, no mailbox has changed, the last event logged is the
\* noise warning (level warn, for the response's run), and the result is ok with
\* dropped = true.
C4_NoiseResponseDropped ==
    \A t \in Threads :
        HandlerReturned(t) /\ ~NonNoise(t) =>
            LET r == req[t]
            IN  /\ StatusOf(PipelineState, r.result.segment_id) = "dropped"
                /\ message_queues_by_role = r.q0
                /\ event_log # <<>>
                /\ Last(event_log) = DroppedNoiseEntry(r.result.flow_run_id)
                /\ r.result.dropped

\* A noise response was dropped while the ai mailbox held an envelope.
C4_Witness ==
    \E t \in Threads :
        HandlerReturned(t) /\ ~NonNoise(t) /\ message_queues_by_role["ai"] # <<>>

RECURSIVE IsSubsequence(_, _)
IsSubsequence(a, b) ==
    IF a = <<>> THEN TRUE
    ELSE IF b = <<>> THEN FALSE
    ELSE IF Head(a) = Head(b) THEN IsSubsequence(Tail(a), Tail(b))
    ELSE IsSubsequence(a, Tail(b))

C6_TerminalStatusNeverChanges ==
    [][\A s \in DOMAIN pipeline_segments_by_id :
           (pipeline_segments_by_id[s].status \in {"sent", "dropped"}
                /\ s \in DOMAIN pipeline_segments_by_id')
               => pipeline_segments_by_id'[s].status = pipeline_segments_by_id[s].status]_vars

CaptureFailedEntry(run) ==
    Entry("warn", <<"audio", "segment", "capture", "failed">>, run)

\* The handler's capture step was the fourth-last event of the response's run.
CaptureWarningLogged(r) ==
    LET b == run_events_by_id[r.flow_run_id]
    IN  Len(b) >= 4 /\ b[Len(b) - 3] = CaptureFailedEntry(r.flow_run_id)

\* The response of thread t was delivered without audio.
DeliveredWithoutAudio(t) ==
    LET r == req[t]
        e == Last(message_queues_by_role["ai"])
    IN  /\ AppendedToAi(t, 1)
        /\ e.message.id = r.result.segment_id
        /\ e.message.meta.audio_ref = "none"
        /\ r.result.audio_ref = "none"
        /\ ~r.result.dropped
        /\ StatusOf(PipelineState, r.result.segment_id) = "sent"

CaptureFailed(t) ==
    HandlerReturned(t) /\ NonNoise(t) /\ req[t].capture \in {"unavailable", "raised"}

\* C7: whenever the capture service is unavailable or the capture request fails, a
\* non-noise response is still delivered and its segment sent, with audio_ref null
\* in the payload and in the segment, and a capture warning is logged.
C7_CaptureFailureAlwaysWarned ==
    \A t \in Threads :
        CaptureFailed(t) =>
            /\ DeliveredWithoutAudio(t)
            /\ pipeline_segments_by_id[req[t].result.segment_id].audio_ref = "none"
            /\ CaptureWarningLogged(req[t])

LessonDone(t) ==
    /\ pc[t] = "done"
    /\ req[t].op = "send_message"
    /\ req[t].receiver = "ai"
    /\ req[t].message.kind = "lesson_package"

\* The request of thread t appended rule_prompt, textbook_content, kickoff_prompt to
\* the ai mailbox and nothing else anywhere, all three with the package id returned
\* to the caller and with the meta of the lesson_package.
LessonExpanded(t) ==
    LET r == req[t]
        q == message_queues_by_role["ai"]
        n == Len(q)
    IN  /\ r.result.code = 200
        /\ AppendedToAi(t, 3)
        /\ <<q[n - 2].message.kind, q[n - 1].message.kind, q[n].message.kind>>
               = <<"rule_prompt", "textbook_content", "kickoff_prompt">>
        /\ r.result.package_id # NoId
        /\ \A i \in (n - 2)..n :
               /\ q[i].message.package_id = r.result.package_id
               /\ q[i].message.meta = r.message.meta
        /\ \A i \in 1..n : q[i].message.kind # "lesson_package"

\* C8 as claimed: a lesson_package whose book_type and textbook_text are non-blank
\* appends exactly rule_prompt, textbook_content, kickoff_prompt to the ai mailbox,
\* with one package_id and the original meta, and is not itself enqueued.
C8_NonBlankPackageExpands ==
    \A t \in Threads :
        (LessonDone(t) /\ Strip(req[t].message.book_type) # <<>>
             /\ Strip(req[t].message.text) # <<>>)
            => LessonExpanded(t)

\* C8 as the code has it: the package is valid when its textbook_text is non-blank
\* and its book_type, lowercased and stripped of everything but a-z, 0-9 and _, is
\* non-empty; a valid package appends exactly the three envelopes in order, sharing
\* the package_id and the original meta; any other package is refused with 400 and
\* no mailbox changes.
C8_ValidPackageExpands ==
    \A t \in Threads :
        LessonDone(t) =>
            IF safe_book_key(req[t].message.book_type) # <<>>
                   /\ Strip(req[t].message.text) # <<>>
            THEN LessonExpanded(t)
            ELSE req[t].result.code = 400 /\ message_queues_by_role = req[t].q0

\* A package that brought its own id and meta was expanded behind an earlier one.
C8_Witness ==
    \E t \in Threads :
        /\ LessonDone(t) /\ LessonExpanded(t)
        /\ req[t].message.id # NoId
        /\ Len(message_queues_by_role["ai"]) = 6

LegacyResolutions == {x \in resolutions : IsLegacy(x.raw)}

EndToEnd(t) ==
    /\ pc[t] = "done"
    /\ req[t].op = "send_message"
    /\ req[t].from_empty
    /\ req[t].sender = "stt"
    /\ req[t].receiver = "ai"
    /\ req[t].message = StudentMsg(TextOk, MetaIn(NoRun, NoSeg, "none"))
    /\ req[t].capture \in {"ok", "unavailable"}

\* C10: from the empty state and an empty log directory, a non-noise student_response
\* sent from stt to ai without a run id, with capture succeeding or unavailable,
\* returns ok with dropped = false and flow_run_id log1, leaves exactly one envelope
\* in the ai mailbox, carrying a segment id, and the run document log1 has status ok.
C10_EndToEnd ==
    \A t \in Threads :
        EndToEnd(t) =>
            LET r == req[t]
                q == message_queues_by_role["ai"]
            IN  /\ r.result.code = 200
                /\ ~r.result.dropped
                /\ r.result.flow_run_id = LogId(1)
                /\ Len(q) = 1
                /\ \A x \in Roles \ {"ai"} : message_queues_by_role[x] = <<>>
                /\ q[1].message.meta.segment_id # NoSeg
                /\ q[1].message.meta.audio_ref \in {"none", "captured.wav"}
                /\ LogId(1) \in DOMAIN run_docs
                /\ run_docs[LogId(1)].run_id = LogId(1)
                /\ run_docs[LogId(1)].status = "ok"

\* The end-to-end request was served with its audio captured.
C10_Witness == \E t \in Threads : EndToEnd(t) /\ req[t].capture = "ok"

\* A request whose authentication (in push, pull or close) has run.
Authenticated(t) == req[t].w.auth.done

\* ... and found its session active: present, not closed, not past expires_at.
AuthenticatedOnActive(t) ==
    /\ Authenticated(t)
    /\ req[t].w.auth.found
    /\ ~req[t].w.auth.closed
    /\ ~req[t].w.auth.expired

\* The spec's InvalidToken: the token is missing or matches neither role.
InvalidToken(t) ==
    /\ pc[t] = "done"
    /\ req[t].wres.code = 401
    /\ req[t].wres.error \in {"missing_token", "invalid_token"}

\* The client's token is the key: as written (exact), or once the whitespace around
\* it is removed.
TokenIs(x, key, exact) == IF exact THEN StrRawIs(x, key) ELSE StripRaw(x) = key

\* The role the request authenticated as follows from its token; any other token
\* fails with InvalidToken; a token made for one session authenticates on no other.
TokenDecidesRole(t, exact) ==
    LET r == req[t]
        a == r.w.auth
        sid == StripRaw(r.w.session_id)
    IN  /\ r.w.role = "receiver" => TokenIs(r.w.token, a.receiver_token, exact)
        /\ r.w.role = "transmitter" =>
               /\ a.transmitter_token # NoId
               /\ TokenIs(r.w.token, a.transmitter_token, exact)
        /\ r.w.role = "none" <=> InvalidToken(t)
        /\ r.w.role # "none" => walkie_issued.owner[StripRaw(r.w.token)] = sid

\* C11 as stated: on an active session a request authenticates as receiver only if
\* its token is exactly the receiver_token, as transmitter only if it is exactly the
\* current non-null transmitter_token, and fails with InvalidToken otherwise.
C11_ExactTokenMatch ==
    \A t \in Threads : AuthenticatedOnActive(t) => TokenDecidesRole(t, TRUE)

\* C11: on an active session a request authenticates as receiver only if its token,
\* with the whitespace around it removed, equals the receiver_token, and as
\* transmitter only if it so equals the current non-null transmitter_token; any
\* other token (missing, empty, before any join) fails with InvalidToken, and a
\* token issued for one session never authenticates on another.
C11_TrimmedTokenMatch ==
    \A t \in Threads : AuthenticatedOnActive(t) => TokenDecidesRole(t, FALSE)

\* With two sessions active, a token written inside whitespace has authenticated.
C11_Witness ==
    /\ \E t \in Threads : /\ AuthenticatedOnActive(t)
                          /\ req[t].w.role = "transmitter"
                          /\ req[t].w.token.pad
    /\ Cardinality(DOMAIN walkie_sessions_by_id) = 2

\* Another session's token has been refused.
C11_ForeignTokenRefused ==
    \E t \in Threads :
        /\ AuthenticatedOnActive(t)
        /\ InvalidToken(t)
        /\ StripRaw(req[t].w.token) \in DOMAIN walkie_issued.owner
        /\ walkie_issued.owner[StripRaw(req[t].w.token)] # StripRaw(req[t].w.session_id)

\* The session the request names, if the relay ever made it.
NamedSession(t) == StripRaw(req[t].w.session_id)

\* Session sid was past its expires_at at clock reading at, and was never closed.
PastTTL(sid, at) ==
    /\ sid \in walkie_issued.sessions
    /\ at > walkie_issued.expires_at[sid]
    /\ \A c \in walkie_closed : c.session_id # sid

\* Session sid is in neither table.
Forgotten(sid) ==
    /\ sid \notin DOMAIN walkie_sessions_by_id
    /\ \A code \in DOMAIN walkie_session_id_by_pair_code :
           walkie_session_id_by_pair_code[code] # sid

\* The authentication of a push, pull or close ran on a session past its TTL.
AuthenticatedPastTTL(t) ==
    /\ pc[t] = "done"
    /\ Authenticated(t)
    /\ PastTTL(NamedSession(t), req[t].w.at)

\* C12: a push, pull or close on a session whose expires_at has passed fails with
\* SessionExpired, and afterwards the session is in neither the session table nor
\* the pair-code index.
C12_ExpiredSessionRejected ==
    \A t \in Threads :
        AuthenticatedPastTTL(t) =>
            /\ req[t].wres.error = "session_expired"
            /\ Forgotten(NamedSession(t))

\* A join has answered, and its pair code belongs to a session past its TTL and to
\* no later session.
JoinedPastTTL(t) ==
    /\ pc[t] = "done"
    /\ req[t].op = "walkie_session_join"
    /\ req[t].w.at > 0
    /\ \E sid \in walkie_issued.sessions :
           /\ walkie_issued.pair_code[sid] = StripRaw(req[t].w.pair_code)
           /\ PastTTL(sid, req[t].w.at)
    /\ \A sid \in walkie_issued.sessions :
           walkie_issued.pair_code[sid] = StripRaw(req[t].w.pair_code) =>
               PastTTL(sid, req[t].w.at)

\* A join has answered, and its (non-empty) pair code was never issued.
JoinedUnknown(t) ==
    /\ pc[t] = "done"
    /\ req[t].op = "walkie_session_join"
    /\ req[t].w.at > 0
    /\ StripRaw(req[t].w.pair_code) \notin walkie_issued.codes

\* C13: a join with the pair code of a session past its TTL fails with
\* SessionExpired (410) and assigns no transmitter token; a join with a pair code
\* that was never issued fails with PairCodeNotFound (404).
C13_JoinExpiredOrUnknown ==
    \A t \in Threads :
        /\ JoinedPastTTL(t) =>
               /\ req[t].wres.code = 410
               /\ req[t].wres.error = "session_expired"
               /\ req[t].wres.token = NoId
        /\ JoinedUnknown(t) =>
               /\ req[t].wres.code = 404
               /\ req[t].wres.error = "pair_code_not_found"

\* A request that arrived after the close c had succeeded has answered.
AnsweredAfterClose(t, c) == pc[t] = "done" /\ c \in req[t].w.closed0

\* C14: after a close has succeeded the session is in neither table and its pair
\* code is not in the pair-code index; every later push, pull or close on that
\* session id and every later join with that pair code fails; the session is never
\* active again.
C14_ClosedIsTerminal ==
    \A c \in walkie_closed :
        /\ Forgotten(c.session_id)
        /\ c.pair_code \notin DOMAIN walkie_session_id_by_pair_code
        /\ \A t \in Threads :
               AnsweredAfterClose(t, c) =>
                   /\ (Authenticated(t) /\ NamedSession(t) = c.session_id) =>
                          req[t].wres.code # 200
                   /\ (/\ req[t].op = "walkie_session_join"
                       /\ StripRaw(req[t].w.pair_code) = c.pair_code) =>
                          req[t].wres.code # 200

\* The part of C14 about later requests on the session id: they all fail.
C14_LaterRequestsFail ==
    \A c \in walkie_closed : \A t \in Threads :
        (AnsweredAfterClose(t, c) /\ Authenticated(t) /\ NamedSession(t) = c.session_id)
            => req[t].wres.code \in {401, 404}

\* A join with a closed session's pair code has succeeded: on a later session that
\* drew the same code.
C14_PairCodeReused ==
    \E c \in walkie_closed : \E t \in Threads :
        /\ AnsweredAfterClose(t, c)
        /\ req[t].op = "walkie_session_join"
        /\ StripRaw(req[t].w.pair_code) = c.pair_code
        /\ req[t].wres.code = 200

TransmitterToken(sessions, sid) == sessions[sid].transmitter_token

\* A session enters the table with a null transmitter_token.
CreatedUnjoined ==
    \A sid \in DOMAIN walkie_sessions_by_id' \ DOMAIN walkie_sessions_by_id :
        TransmitterToken(walkie_sessions_by_id', sid) = NoId

\* This step is thread t's join succeeding on session sid with a fresh token.
JoinAssigns(t, sid) ==
    /\ pc[t] = "wj_body"
    /\ pc'[t] = "wj_log"
    /\ req'[t].wres.session_id = sid
    /\ req'[t].wres.token = TransmitterToken(walkie_sessions_by_id', sid)
    /\ req'[t].wres.token \notin walkie_issued.tokens \cup {NoId}

Replaced(sid) ==
    {tok \in walkie_issued.replaced : walkie_issued.owner[tok] = sid}

\* C16: once a second join has succeeded on an active session, the token of the
\* first join fails authentication with InvalidToken, the token of the latest join
\* authenticates as transmitter, and the receiver token is the one issued at
\* creation and still authenticates as receiver.
C16_SecondJoinOverwrites ==
    /\ \A sid \in DOMAIN walkie_sessions_by_id :
           Replaced(sid) # {} =>
               /\ walkie_sessions_by_id[sid].receiver_token = walkie_issued.receiver[sid]
               /\ walkie_sessions_by_id[sid].transmitter_token
                      \notin walkie_issued.replaced \cup {NoId}
    /\ \A t \in Threads :
           (/\ pc[t] = "done"
            /\ AuthenticatedOnActive(t)
            /\ Replaced(NamedSession(t)) # {}) =>
               LET tok == StripRaw(req[t].w.token)
               IN  /\ tok \in walkie_issued.replaced => InvalidToken(t)
                   /\ tok = req[t].w.auth.transmitter_token =>
                          req[t].w.role = "transmitter" /\ req[t].wres.code # 401
                   /\ tok = walkie_issued.receiver[NamedSession(t)] =>
                          req[t].w.role = "receiver" /\ req[t].wres.code # 401

\* After a second join, a push with the first join's token has been refused.
C16_Witness ==
    \E t \in Threads :
        /\ pc[t] = "done"
        /\ AuthenticatedOnActive(t)
        /\ StripRaw(req[t].w.token) \in Replaced(NamedSession(t))
        /\ InvalidToken(t)

\* After a second join, a push with the second join's token has authenticated.
C16_LatestTokenAccepted ==
    \E t \in Threads :
        /\ pc[t] = "done"
        /\ AuthenticatedOnActive(t)
        /\ Replaced(NamedSession(t)) # {}
        /\ req[t].w.role = "transmitter"

\* A push has answered after authenticating in the role it addresses.
SameRolePush(t) ==
    /\ pc[t] = "done"
    /\ req[t].op = "walkie_signal_push"
    /\ Authenticated(t)
    /\ req[t].w.role \in WalkieRoles
    /\ req[t].w.role = StripLower(req[t].w.to)

\* The signal queues of session sid in table sessions.
QueuesOf(sessions, sid) == sessions[sid].signals

\* C17: a push whose authenticated role equals its to_role fails with
\* CannotSignalSameRole and enqueues nothing; every queued signal's from role
\* differs from the role of the queue it sits in.
C17_RoleExclusivity ==
    /\ \A t \in Threads :
           SameRolePush(t) =>
               /\ req[t].wres.code = 400
               /\ req[t].wres.error = "cannot_signal_same_role"
               /\ QueuesOf(walkie_sessions_by_id, NamedSession(t))
                      = QueuesOf(req[t].w.before, NamedSession(t))
    /\ \A sid \in DOMAIN walkie_sessions_by_id : \A role \in WalkieRoles :
           \A i \in 1..Len(QueuesOf(walkie_sessions_by_id, sid)[role]) :
               LET signal == QueuesOf(walkie_sessions_by_id, sid)[role][i]
               IN  signal.to = role /\ signal.from # role

\* A transmitter's push to transmitter has been refused while a signal was queued.
C17_Witness ==
    \E t \in Threads :
        /\ SameRolePush(t)
        /\ req[t].w.role = "transmitter"
        /\ QueuesOf(walkie_sessions_by_id, NamedSession(t))["transmitter"] # <<>>

\* A push has been rejected, for whatever reason.
RejectedPush(t) ==
    /\ pc[t] = "done"
    /\ req[t].op = "walkie_signal_push"
    /\ req[t].wres.code # 200

\* C18: a rejected push leaves the signal queues and the last_seen timestamps of
\* every active session as they were when the push arrived, and every session that
\* was active stays in the table.
C18_RejectedPushChangesNothing ==
    \A t \in Threads :
        RejectedPush(t) =>
            LET before == req[t].w.before
            IN  /\ \A sid \in DOMAIN walkie_sessions_by_id :
                       /\ sid \in DOMAIN before
                       /\ walkie_sessions_by_id[sid].signals = before[sid].signals
                       /\ walkie_sessions_by_id[sid].last_seen = before[sid].last_seen
                /\ \A sid \in DOMAIN before \ DOMAIN walkie_sessions_by_id :
                       before[sid].closed \/ now > before[sid].expires_at

\* A push has been refused after authentication, on a session that holds a queued
\* signal and was last seen at an earlier clock reading.
C18_Witness ==
    \E t \in Threads :
        /\ RejectedPush(t)
        /\ Authenticated(t)
        /\ NamedSession(t) \in DOMAIN walkie_sessions_by_id
        /\ LET sess == walkie_sessions_by_id[NamedSession(t)]
           IN  /\ sess.signals["transmitter"] # <<>>
               /\ sess.last_seen["receiver"] < req[t].w.at

\* A pull has answered 200.
PullAnswered(t) ==
    /\ pc[t] = "done"
    /\ req[t].op = "walkie_signal_pull"
    /\ req[t].wres.code = 200

C19_EmptyAfterTimeout ==
    \E t \in Threads :
        /\ PullAnswered(t)
        /\ req[t].w.waited
        /\ req[t].wres.messages = <<>>

\* A pull that authenticated on its first pass has answered without ever finding a
\* signal in its queue.
EmptyPullAnswered(t) ==
    /\ pc[t] = "done"
    /\ req[t].op = "walkie_signal_pull"
    /\ req[t].w.first_ok
    /\ req[t].wres.messages = <<>>
    /\ req[t].w.expected = <<>>

\* The last pass of the pull's loop authenticated.
LastPassAuthenticated(t) == req[t].w.role \in WalkieRoles

C20_ClosedWhileWaiting ==
    \E t \in Threads :
        /\ EmptyPullAnswered(t)
        /\ req[t].w.waited
        /\ req[t].wres.code = 404
        /\ \E c \in walkie_closed : c.session_id = NamedSession(t)

\* The newest signals of a list, as many as a queue holds.
Newest(q) == TrimFront(q, WALKIE_MAX_SIGNAL_QUEUE)

\* A pull has returned a batch of signals.
BatchPulled(t) ==
    /\ pc[t] = "done"
    /\ req[t].op = "walkie_signal_pull"
    /\ req[t].wres.code = 200
    /\ req[t].wres.messages # <<>>

\* C21: each directional signal queue is a bounded FIFO: it never holds more
\* signals than its capacity; it holds the newest of the signals accepted for it
\* since its last pull, in the order their pushes were accepted, the oldest being
\* discarded on overflow; and a pull returns the queue as it is, in that order.
C21_BoundedFifo ==
    /\ \A sid \in DOMAIN walkie_sessions_by_id : \A role \in WalkieRoles :
        LET q == walkie_sessions_by_id[sid].signals[role]
        IN  /\ Len(q) <= WALKIE_MAX_SIGNAL_QUEUE
            /\ q = Newest(PendingOf(sid, role))
    /\ \A t \in Threads :
        BatchPulled(t) => req[t].wres.messages = Newest(req[t].w.expected)

\* A pull has returned a full queue of differing signals after more pushes were
\* accepted for it than it holds.
C21_Witness ==
    \E t \in Threads :
        /\ BatchPulled(t)
        /\ Len(req[t].w.expected) > WALKIE_MAX_SIGNAL_QUEUE
        /\ Len(req[t].wres.messages) = WALKIE_MAX_SIGNAL_QUEUE
        /\ \E i, j \in 1..Len(req[t].wres.messages) :
               req[t].wres.messages[i] # req[t].wres.messages[j]

\* C22: in every reachable state no two sessions of the session table share a pair
\* code, every session of the table has its pair code mapped to its own session id
\* in the index, and every index entry points to a session that is in the table
\* and carries that pair code.
C22_IndexConsistent ==
    LET table == walkie_sessions_by_id
        index == walkie_session_id_by_pair_code
    IN  /\ \A a, b \in DOMAIN table : table[a].pair_code = table[b].pair_code => a = b
        /\ \A sid \in DOMAIN table :
               /\ table[sid].pair_code \in DOMAIN index
               /\ index[table[sid].pair_code] = sid
        /\ \A code \in DOMAIN index :
               /\ index[code] \in DOMAIN table
               /\ table[index[code]].pair_code = code

\* Of two sessions created, one is gone from the table and from the index, swept
\* by expiry, and the other is still in both.
C22_Witness ==
    \E gone \in walkie_issued.sessions, kept \in DOMAIN walkie_sessions_by_id :
        /\ gone \notin DOMAIN walkie_sessions_by_id
        /\ \A c \in walkie_closed : c.session_id # gone
        /\ walkie_issued.pair_code[gone] \notin DOMAIN walkie_session_id_by_pair_code
        /\ walkie_session_id_by_pair_code[walkie_issued.pair_code[kept]] = kept

\* A session closed by its receiver is gone from the table and from the index
\* while another session is still in both.
C22_ClosedLeavesNoEntry ==
    \E c \in walkie_closed, kept \in DOMAIN walkie_sessions_by_id :
        /\ c.session_id \notin DOMAIN walkie_sessions_by_id
        /\ c.pair_code \notin DOMAIN walkie_session_id_by_pair_code
        /\ kept # c.session_id

WalkieOps ==
    {"walkie_session_create", "walkie_session_join", "walkie_signal_push",
     "walkie_signal_pull", "walkie_session_close"}

LockedSections == {"wc_body", "wj_body", "wp_body", "wl_body", "wx_body"}

ExpiredEvent(run) == Entry("warn", <<"walkie", "session", "expired">>, run)

\* Session sid of the table is closed or past its expires_at now.
StaleNow(sid) ==
    walkie_sessions_by_id[sid].closed \/ now > walkie_issued.expires_at[sid]

\* The expired events of the sessions in S, oldest session first.
RECURSIVE ExpiredEvents(_)
ExpiredEvents(S) ==
    IF S = {} THEN <<>>
    ELSE LET sid == CHOOSE x \in S : \A y \in S : x.n <= y.n
         IN  <<ExpiredEvent(walkie_sessions_by_id[sid].flow_run_id)>>
                 \o ExpiredEvents(S \ {sid})

\* Thread t runs the sweep that opens its locked section.
SweepStep(t) == pc[t] = "w_prune" /\ pc'[t] # "w_prune"

\* The sessions that leave the table in this step without being closed, neither
\* before the step nor by it.
SweptByExpiry ==
    {sid \in DOMAIN walkie_sessions_by_id :
        /\ sid \notin DOMAIN walkie_sessions_by_id'
        /\ ~walkie_sessions_by_id[sid].closed
        /\ \A c \in walkie_closed' : c.session_id # sid}

C23_ClosedSweptSilently ==
    \E c \in walkie_closed, t \in Threads :
        /\ pc[t] \in LockedSections
        /\ c \in req[t].w.closed0
        /\ Forgotten(c.session_id)
        /\ \A i \in 1..Len(event_log) :
               event_log[i].event # <<"walkie", "session", "expired">>
        /\ last_done.op = "walkie_session_close"
        /\ c.session_id \in DOMAIN req[t].w.before

\* Thread t runs the locked section of a create, after its sweep.
CreateStep(t) == pc[t] = "wc_body" /\ pc'[t] # "wc_body"

\* A session as create leaves it: waiting for its transmitter, open, nothing queued.
IsPending(sess) ==
    /\ sess.transmitter_token = NoId
    /\ ~sess.closed
    /\ \A role \in WalkieRoles : sess.signals[role] = <<>>

\* The tables gain session sid under pair code code, and nothing else changes.
AddsOneSession(sid, code) ==
    /\ sid \notin DOMAIN walkie_sessions_by_id
    /\ DOMAIN walkie_sessions_by_id' = DOMAIN walkie_sessions_by_id \cup {sid}
    /\ \A old \in DOMAIN walkie_sessions_by_id :
           walkie_sessions_by_id'[old] = walkie_sessions_by_id[old]
    /\ IsPending(walkie_sessions_by_id'[sid])
    /\ walkie_sessions_by_id'[sid].pair_code = code
    /\ code \notin DOMAIN walkie_session_id_by_pair_code
    /\ DOMAIN walkie_session_id_by_pair_code' =
           DOMAIN walkie_session_id_by_pair_code \cup {code}
    /\ walkie_session_id_by_pair_code'[code] = sid
    /\ \A old \in DOMAIN walkie_session_id_by_pair_code :
           walkie_session_id_by_pair_code'[old] = walkie_session_id_by_pair_code[old]

C24_SecondSampleTaken ==
    \E t \in Threads :
        /\ pc[t] = "done"
        /\ req[t].op = "walkie_session_create"
        /\ req[t].wres.code = 200
        /\ req[t].w.draws[1] # req[t].wres.pair_code
        /\ IsPending(walkie_sessions_by_id[req[t].wres.session_id])
        /\ Cardinality(DOMAIN walkie_sessions_by_id) = 2

\* The rollup of a run's events.
Rollup(events) ==
    LET levels == {LowerStr(events[i].level) : i \in 1..Len(events)}
        names == {events[i].event : i \in 1..Len(events)}
    IN  IF "error" \in levels
           \/ \E name \in names :
                 \/ \E k \in 1..Len(name) : name[k] = "failed"
                 \/ name # <<>> /\ Last(name) = "error"
        THEN "failed"
        ELSE IF levels \cap {"warn", "warning"} # {} THEN "warning"
        ELSE "ok"

\* The persisted document of run rid.
PersistedDoc(rid) == run_docs[run_files_by_id[rid]]

\* C25: every run that has events has a persisted document, and the status of its
\* summary is the rollup of the run's current bucket: failed if any event has level
\* error (in either case) or a name containing 'failed' or ending in 'error';
\* otherwise warning if any event has level warn or warning; otherwise ok.
C25_StatusIsRollup ==
    \A rid \in DOMAIN run_events_by_id :
        /\ rid \in DOMAIN run_files_by_id
        /\ run_files_by_id[rid] \in DOMAIN run_docs
        /\ PersistedDoc(rid).events = run_events_by_id[rid]
        /\ PersistedDoc(rid).status = Rollup(run_events_by_id[rid])

\* A run is persisted as failed on the name of an event alone: none of its events
\* has level error.
C25_Witness ==
    \E rid \in DOMAIN run_files_by_id :
        /\ PersistedDoc(rid).status = "failed"
        /\ \A i \in 1..Len(run_events_by_id[rid]) :
               LowerStr(run_events_by_id[rid][i].level) # "error"
        /\ \E i \in 1..Len(run_events_by_id[rid]) :
               run_events_by_id[rid][i].level = "warn"

\* A run is persisted as failed on the level of a client's entry.
C25_FailedByLevel ==
    \E rid \in DOMAIN run_files_by_id :
        /\ PersistedDoc(rid).status = "failed"
        /\ \A i \in 1..Len(run_events_by_id[rid]) :
               ~IsFailureSignal(run_events_by_id[rid][i].event)

\* A run is persisted as warning, and another as ok.
C25_WarningAndOk ==
    \E a, b \in DOMAIN run_files_by_id :
        /\ PersistedDoc(a).status = "warning"
        /\ PersistedDoc(b).status = "ok"

\* The letters and digits of a text, in lower case.
Alphanumerics(t) ==
    LET at == {i \in 1..Len(t) : t[i] \in LowerLetters \cup UpperLetters \cup Digits}
    IN  [i \in at |-> LowerChar(t[i])]

\* The rule of the noise filter on a text: after trimming it is empty, shorter than
\* two characters, without a letter or digit, or its letters and digits are five or
\* more repetitions of one character.
NoiseByRule(text) ==
    LET t == Strip(text)
        alnum == Alphanumerics(t)
    IN  \/ t = <<>>
        \/ Len(t) < 2
        \/ DOMAIN alnum = {}
        \/ /\ Cardinality(DOMAIN alnum) >= 5
           /\ \A i, j \in DOMAIN alnum : alnum[i] = alnum[j]

\* The filter has classified a text.
Classified(t) == pc[t] = "done" /\ req[t].op = "looks_like_noise"

C26_TwoCharactersPass ==
    \E t \in Threads :
        /\ Classified(t)
        /\ ~req[t].noise
        /\ Len(req[t].text) = 2
        /\ req[t].text[1] # req[t].text[2]

\* The session table and the pair-code index, queues included.
SharedTables == <<walkie_sessions_by_id, walkie_session_id_by_pair_code>>

\* Thread t is the only one inside a locked section, before or after the step.
AloneInLockedSection(t) ==
    /\ walkie_lock = t \/ walkie_lock' = t
    /\ \A u \in Threads \ {t} :
           /\ pc[u] \notin LockedSections /\ pc'[u] \notin LockedSections
           /\ walkie_lock # u /\ walkie_lock' # u

\* C27: under any interleaving of concurrent create, join, push, pull and close
\* requests, a thread is in a locked section only while it holds the walkie lock,
\* and the session table, the pair-code index and the signal queues change only in
\* a step of the one thread that holds it; so every queue of a session in the table
\* holds the newest of the signals accepted for it since its last delivery, and a
\* pull takes its queue whole and leaves it empty: no accepted signal is delivered
\* to two pulls, and none is lost other than by overflow or with its session.
C27_LockDiscipline ==
    [][/\ \A t \in Threads : pc'[t] \in LockedSections => walkie_lock' = t
       /\ SharedTables' # SharedTables =>
              \E t \in Threads : pc'[t] # pc[t] /\ AloneInLockedSection(t)
       /\ \A sid \in DOMAIN walkie_sessions_by_id' : \A role \in WalkieRoles :
              walkie_sessions_by_id'[sid].signals[role] =
                  TrimFront(IF PendingKey(sid, role) \in DOMAIN walkie_pending'
                            THEN walkie_pending'[PendingKey(sid, role)] ELSE <<>>,
                            WALKIE_MAX_SIGNAL_QUEUE)
       /\ \A t \in Threads :
              (pc[t] = "wl_body" /\ pc'[t] = "done" /\ req'[t].wres.code = 200) =>
                  LET sid == NamedSession(t)
                      role == req'[t].wres.role
                  IN  /\ req'[t].wres.messages = walkie_sessions_by_id[sid].signals[role]
                      /\ req'[t].wres.messages # <<>>
                      /\ walkie_sessions_by_id'[sid].signals[role] = <<>>
                      /\ \A u \in Threads \ {t} : req'[u].wres = req[u].wres]_vars

\* Two pulls of one queue are in flight at once: one has been given the signal,
\* the other has found the queue empty and waits.
C27_Witness ==
    \E t, u \in Threads :
        /\ t # u
        /\ BatchPulled(t)
        /\ req[u].op = "walkie_signal_pull"
        /\ req[u].w.session_id = req[t].w.session_id
        /\ req[u].w.token = req[t].w.token
        /\ pc[u] = "wl_wait"
        /\ req[u].w.first_ok

\* C28: a pull in its sleep phase does not hold the walkie lock, and the lock is
\* held only by a thread inside a locked section, which never sleeps: the requests
\* of other callers get the lock without waiting for the pull's timeout.
C28_SleepsUnlocked ==
    /\ \A t \in Threads : pc[t] = "wl_wait" => walkie_lock # t
    /\ walkie_lock # "free" => pc[walkie_lock] \in LockedSections

\* A push has been accepted into the queue that a pull found empty and still waits on.
C28_Witness ==
    \E t, u \in Threads :
        /\ pc[u] = "wl_wait" /\ req[u].op = "walkie_signal_pull" /\ req[u].w.first_ok
        /\ pc[t] = "done" /\ req[t].op = "walkie_signal_push" /\ req[t].wres.code = 200
        /\ req[t].w.session_id = req[u].w.session_id
        /\ PendingOf(NamedSession(u), req[u].w.role) # <<>>

\* The session a pull waits on has been joined by a request that started and
\* finished while the pull slept.
C28_JoinedWhileWaiting ==
    \E t, u \in Threads :
        /\ pc[u] = "wl_wait" /\ req[u].op = "walkie_signal_pull" /\ req[u].w.first_ok
        /\ req[u].w.auth.transmitter_token = NoId
        /\ pc[t] = "done" /\ req[t].op = "walkie_session_join" /\ req[t].wres.code = 200
        /\ req[t].wres.session_id = NamedSession(u)

\* No call of _pipeline_upsert_segment is under way.
NoUpsertUnderWay == \A t \in Threads : pc[t] \notin UpsertLabels

\* C29: whenever no upsert is under way, the concurrent upserts so far have left the
\* segment map and the ordered index holding the same ids, each id once in the
\* ordered index, and no more than _PIPELINE_SEGMENTS_MAX ids.
C29_UpsertsAtomic ==
    NoUpsertUnderWay =>
        /\ Range(pipeline_segment_order) = DOMAIN pipeline_segments_by_id
        /\ \A i, j \in DOMAIN pipeline_segment_order :
               pipeline_segment_order[i] = pipeline_segment_order[j] => i = j
        /\ Len(pipeline_segment_order) <= PIPELINE_SEGMENTS_MAX

\* The file is the complete output of one flush: its head and its events, written
\* by the same flush, and nothing else.
CompleteDocument(content) ==
    /\ Len(content) = 2
    /\ content[1].part = 1 /\ content[2].part = 2
    /\ content[1].flush # 0 /\ content[1].flush = content[2].flush

\* The threads whose file object is open on the file named name.
WritersOf(name) == {t \in Threads : pc[t] \in {"fl_w1", "fl_w2"} /\ req[t].fd = name}

\* C30: when record calls for one flow_run_id run concurrently, no file of the run
\* is written by two flushes at a time, the persisted document is at all times the
\* complete output of a single flush, and once no call is under way it holds every
\* event of the run's bucket.
C30_FlushAtomic ==
    \A rid \in DOMAIN run_files_by_id :
        LET path == run_files_by_id[rid]
        IN  /\ Cardinality(WritersOf(path) \cup WritersOf(TmpPath(path))) <= 1
            /\ path \in DOMAIN run_docs =>
                   /\ CompleteDocument(run_docs[path])
                   /\ (\A t \in Threads : pc[t] \notin RecordLabels) =>
                          run_docs[path][2].events = run_events_by_id[rid]

\* Thread t has just returned from an upsert of a segment id.
Upserted(t) ==
    pc[t] = "done" /\ req[t].op = "pipeline_upsert_segment" /\ req[t].segment_id # NoSeg

\* C31: between sequential upserts the segment map and the ordered index hold the
\* same ids, the ordered index holds each id once and no more than
\* _PIPELINE_SEGMENTS_MAX of them; an upsert of a known id leaves the ordered index
\* as it was, one of a new id appends it, and at capacity the oldest-inserted id
\* leaves both the ordered index and the map.
C31_BoundedHistory ==
    NoUpsertUnderWay =>
        /\ DOMAIN pipeline_segments_by_id = Range(pipeline_segment_order)
        /\ Cardinality(Range(pipeline_segment_order)) = Len(pipeline_segment_order)
        /\ Len(pipeline_segment_order) <= PIPELINE_SEGMENTS_MAX
        /\ \A t \in Threads : Upserted(t) =>
               LET sid == req[t].segment_id
                   before == req[t].order0
               IN  IF sid \in Range(before) THEN pipeline_segment_order = before
                   ELSE IF Len(before) < PIPELINE_SEGMENTS_MAX
                   THEN pipeline_segment_order = Append(before, sid)
                   ELSE /\ pipeline_segment_order = Append(Tail(before), sid)
                        /\ Head(before) \notin DOMAIN pipeline_segments_by_id

\* A new segment id has been inserted into a full tracker.
C31_Witness ==
    \E t \in Threads :
        /\ Upserted(t)
        /\ Len(req[t].order0) = PIPELINE_SEGMENTS_MAX
        /\ req[t].segment_id \notin Range(req[t].order0)

\* A known segment id has been upserted again.
C31_KnownIdUpserted ==
    \E t \in Threads : Upserted(t) /\ req[t].segment_id \in Range(req[t].order0)

\* Thread t returns from an upsert in this step.
UpsertReturns(t) == pc[t] = "pu_last" /\ pc'[t] = "done"

\* C32: last_segment_ids starts out null for captured, transcribed, sent and
\* dropped; an upsert that sets a segment to status s makes last_segment_ids[s]
\* that segment's id and leaves the other entries alone, and nothing else changes
\* the index: each entry is null until a segment is set to its status, and then
\* names the segment most recently set to it.
C32_LastIdsExact ==
    [][/\ (nreq = 0 /\ \A t \in Threads : pc[t] = "idle") =>
              \A s \in TrackedStatuses : pipeline_last_ids[s] = NoSeg
       /\ IF \E t \in Threads : UpsertReturns(t)
          THEN \A t \in Threads : UpsertReturns(t) =>
                   LET sid == req[t].segment_id
                       set == req[t].updates.status
                   IN  /\ pipeline_segments_by_id[sid].status = set
                       /\ pipeline_last_ids' = [pipeline_last_ids EXCEPT ![set] = sid]
          ELSE pipeline_last_ids' = pipeline_last_ids]_vars

\* A second segment has been set to a status another segment was set to before.
C32_Witness ==
    \E t \in Threads : \E s \in TrackedStatuses :
        /\ Upserted(t) /\ req[t].updates.status = s
        /\ pipeline_last_ids[s] = req[t].segment_id
        /\ \E other \in DOMAIN pipeline_segments_by_id \ {req[t].segment_id} :
               pipeline_segments_by_id[other].status = s
        /\ \E z \in TrackedStatuses : pipeline_last_ids[z] = NoSeg

\* The highest N over the documents named log<N> in the directory, 0 without any.
HighestLogIndex ==
    LET idxs == {p.n : p \in {q \in DOMAIN run_docs : q.pfx = "log"}}
    IN  IF idxs = {} THEN 0 ELSE CHOOSE m \in idxs : \A k \in idxs : k <= m

\* Thread t forms its run id in this step.
Allocates(t) == pc[t] = "nar_read" /\ pc'[t] = "nar_incr"

\* C33: at most one thread is inside _next_auto_run_id's locked section; the first
\* allocation returns log<N> with N one more than the highest index in the log
\* directory at that moment, and the k-th allocation, whichever thread makes it,
\* returns the index k - 1 after that one: no id is returned twice.
C33_AllocationAtomic ==
    [][/\ Cardinality({t \in Threads : pc'[t] \in AutoRunLocked}) <= 1
       /\ \A t \in Threads : Allocates(t) =>
              /\ req'[t].flow_run_id.pfx = "log"
              /\ first_idx' = IF omitted_allocs = 0 THEN HighestLogIndex + 1 ELSE first_idx
              /\ req'[t].flow_run_id.n = first_idx' + omitted_allocs
              /\ omitted_allocs' = omitted_allocs + 1
       /\ \A t, u \in Threads :
              (t # u /\ pc'[t] \in {"nar_incr", "done"} /\ pc'[u] \in {"nar_incr", "done"}
                     /\ req'[t].op = "next_auto_run_id" /\ req'[u].op = "next_auto_run_id")
                  => req'[t].flow_run_id # req'[u].flow_run_id]_vars

\* One thread waits for the lock while the other, inside it, has formed an id that
\* continues from a directory that already held log2.
C33_Witness ==
    \E t, u \in Threads :
        /\ pc[t] = "nar_incr" /\ pc[u] = "nar_lock"
        /\ first_idx = 3 /\ req[t].flow_run_id = LogId(4)

\* The entry logged last.
LastLogged == event_log[Len(event_log)]

\* The status of the segment of thread t's response.
ResponseStatus(t) == StatusOf(PipelineState, req[t].segment_id)

\* C34: in the Response Handler the envelope is appended to the ai mailbox in a step
\* that finds the segment transcribed and the finalized event logged last; the
\* step that makes a segment sent belongs to a response whose envelope has been
\* appended, and the sent event is logged in a later step that finds the segment
\* sent. So a segment becomes sent only after its envelope was enqueued.
C34_StepOrder ==
    [][/\ \A t \in Threads :
              (pc[t] = "hsr_enqueue" /\ pc'[t] # pc[t]) =>
                  /\ ResponseStatus(t) = "transcribed"
                  /\ LastLogged.event = <<"stt", "segment", "finalized">>
                  /\ message_queues_by_role'["ai"] =
                         Append(message_queues_by_role["ai"],
                                Envelope(req[t].sender, req[t].payload, enq_count + 1))
                  /\ req[t].payload.id = req[t].segment_id
                  /\ pc'[t] = "hsr_sent_upsert" /\ ResponseStatus(t)' = "transcribed"
       /\ \A sid \in DOMAIN pipeline_segments_by_id' :
              (pipeline_segments_by_id'[sid].status = "sent"
                   /\ StatusOf(PipelineState, sid) # "sent") =>
                  \E t \in Threads :
                      /\ pc[t] = "hsr_sent_upsert" /\ pc'[t] = "hsr_sent_log"
                      /\ req[t].segment_id = sid
                      /\ req[t].tags = <<enq_count>>
                      /\ LastLogged.event = <<"enqueue">>
                      /\ UNCHANGED <<message_queues_by_role, event_log>>
       /\ \A t \in Threads :
              (pc[t] = "hsr_sent_log" /\ pc'[t] # pc[t]) =>
                  /\ ResponseStatus(t) = "sent"
                  /\ LastLogged'.event = <<"student", "response", "sent">>
                  /\ UNCHANGED <<message_queues_by_role, pipeVars>>]_vars

\* Between the append and the sent mark: the envelope is the newest of the ai
\* mailbox and the segment is still transcribed.
C34_Witness ==
    \E t \in Threads :
        /\ pc[t] = "hsr_sent_upsert"
        /\ ResponseStatus(t) = "transcribed"
        /\ message_queues_by_role["ai"] # <<>>
        /\ message_queues_by_role["ai"][Len(message_queues_by_role["ai"])].message.id
               = req[t].segment_id

\* The request of thread t names a session id and a token the server handed out:
\* without both, its authentication fails whenever it is made.
NamesIssuedCredentials(t) ==
    /\ StripRaw(req[t].w.session_id) \in walkie_issued.sessions
    /\ StripRaw(req[t].w.token) \in walkie_issued.tokens

\* C35: a push is answered with the error of the earliest failing check in the order
\* authentication, to_role, signal type, same role: invalid_to_role and
\* invalid_signal_type only when authentication cannot have failed,
\* invalid_signal_type only for a valid to_role, and cannot_signal_same_role only
\* for a valid to_role and signal type.
C35_ChecksInListedOrder ==
    \A t \in Threads :
        (pc[t] = "done" /\ req[t].op = "walkie_signal_push") =>
            LET error == req[t].wres.error
            IN  /\ error \in {"invalid_to_role", "invalid_signal_type"} =>
                       NamesIssuedCredentials(t)
                /\ error = "invalid_signal_type" => StripLower(req[t].w.to) \in WalkieRoles
                /\ error = "cannot_signal_same_role" =>
                       /\ StripLower(req[t].w.to) \in WalkieRoles
                       /\ StripLower(req[t].w.type) \in WALKIE_SIGNAL_TYPES

\* The session ids the relay can hand out within the bound of a behaviour.
LiveSessionIds == {Id("walkie", n) : n \in 1..LiveInputs.sessions}

\* A pull of thread t hands out the queue of (sid, role) in this step.
Delivers(t, sid, role) ==
    /\ pc[t] = "wl_body" /\ pc'[t] = "done"
    /\ req'[t].wres.code = 200
    /\ StripRaw(req[t].w.session_id) = sid /\ req'[t].wres.role = role

\* Session sid has a transmitter, the role that keeps pulling.
HasTransmitter(sid) ==
    /\ sid \in DOMAIN walkie_sessions_by_id
    /\ walkie_sessions_by_id[sid].transmitter_token # NoId

\* C36: while the transmitter keeps pulling and the session neither closes nor
\* expires, a queue of the transmitter that holds accepted signals is eventually
\* handed out; the signals accepted for a queue leave it only in a step of a pull
\* of the target role, which returns all of them, in order, unless more than the
\* capacity were accepted since the last pull. A signal pushed while the pull
\* sleeps is returned by that pull or the next.
C36_EventualDelivery ==
    /\ [](walkie_issued.sessions \subseteq LiveSessionIds)
    /\ \A sid \in LiveSessionIds :
           (HasTransmitter(sid) /\ PendingOf(sid, "transmitter") # <<>>)
               ~> (PendingOf(sid, "transmitter") = <<>>)
    /\ [][\A sid \in LiveSessionIds : \A role \in WalkieRoles :
              (PendingOf(sid, role) # <<>> /\ PendingOf(sid, role)' # PendingOf(sid, role))
                  => \/ /\ PendingOf(sid, role)' # <<>>
                        /\ SubSeq(PendingOf(sid, role)', 1, Len(PendingOf(sid, role)))
                               = PendingOf(sid, role)
                     \/ \E t \in Threads :
                            /\ Delivers(t, sid, role)
                            /\ PendingOf(sid, role)' = <<>>
                            /\ req'[t].wres.messages = Newest(PendingOf(sid, role))
                            /\ Len(PendingOf(sid, role)) <= WALKIE_MAX_SIGNAL_QUEUE
                                   => req'[t].wres.messages = PendingOf(sid, role)]_vars

\* A pull that found its queue empty and slept has returned the signal pushed
\* meanwhile.
C36_Witness ==
    \E t \in Threads :
        /\ BatchPulled(t)
        /\ req[t].w.waited /\ req[t].w.first_ok
        /\ req[t].wres.role = "transmitter"

\* Thread t has been answered 200 by a join, a push or a pull that reached the
\* session table.
ServedBySession(t) ==
    /\ pc[t] = "done"
    /\ req[t].op \in {"walkie_session_join", "walkie_signal_push", "walkie_signal_pull"}
    /\ req[t].wres.code = 200
    /\ req[t].wres.session_id # NoId

\* C37: a session's lifetime is fixed at creation: in the table its expires_at is
\* its created_at plus the TTL, the value issued by create; no step changes the
\* created_at or the expires_at of a session that stays in the table; and a join,
\* push or pull that is served by a session found it no later than that expires_at.
C37_FixedLifetime ==
    /\ [](\A sid \in DOMAIN walkie_sessions_by_id :
             /\ walkie_sessions_by_id[sid].expires_at =
                    walkie_sessions_by_id[sid].created_at + WALKIE_SESSION_TTL
             /\ walkie_sessions_by_id[sid].expires_at = walkie_issued.expires_at[sid])
    /\ [][\A sid \in DOMAIN walkie_sessions_by_id \cap DOMAIN walkie_sessions_by_id' :
              /\ walkie_sessions_by_id'[sid].expires_at = walkie_sessions_by_id[sid].expires_at
              /\ walkie_sessions_by_id'[sid].created_at = walkie_sessions_by_id[sid].created_at]_vars
    /\ [](\A t \in Threads :
             ServedBySession(t) =>
                 req[t].w.at <= walkie_issued.expires_at[req[t].wres.session_id])

\* A heartbeat has been accepted by a joined session some time after its creation,
\* and the session is still in the table.
C37_Witness ==
    \E t \in Threads :
        /\ ServedBySession(t)
        /\ req[t].op = "walkie_signal_push"
        /\ req[t].wres.session_id \in DOMAIN walkie_sessions_by_id
        /\ walkie_sessions_by_id[req[t].wres.session_id].transmitter_token # NoId
        /\ req[t].w.at > walkie_sessions_by_id[req[t].wres.session_id].created_at

\* C38 as stated: the id given to a request that named no run is not the id of a
\* run bucket that exists when it is given.
C38_AutoIdsFresh ==
    [][omitted_allocs' = omitted_allocs + 1
           => LogId(auto_run_next_idx' - 1) \notin DOMAIN run_events_by_id]_vars

\* C39 as stated: any two different run ids that have a document have different
\* file paths.
C39_DistinctDocuments ==
    \A r1 \in DOMAIN run_files_by_id : \A r2 \in DOMAIN run_files_by_id :
        r1 # r2 => run_files_by_id[r1] # run_files_by_id[r2]

\* Thread t has answered a student_response request: one sent to ai, or injected.
StudentRequestDone(t) ==
    /\ pc[t] = "done"
    /\ \/ req[t].op = "inject_student_text"
       \/ /\ req[t].op = "send_message"
          /\ req[t].sender # "" /\ req[t].receiver = "ai"
          /\ req[t].message.kind = "student_response"

\* The run buckets that differ from what they were when thread t's request came in.
BucketsTouched(t) ==
    {k \in DOMAIN run_events_by_id :
        k \notin DOMAIN req[t].buckets0 \/ run_events_by_id[k] # req[t].buckets0[k]}

\* The allocations of sequential ids made while thread t's request was served.
CounterAdvance(t) ==
    IF auto_run_next_idx = 0 THEN 0
    ELSE auto_run_next_idx - (IF req[t].idx0 = 0 THEN first_idx ELSE req[t].idx0)

\* The returned id, the payload's, the segment's and the bucket's are one id.
OneRun(t) ==
    LET r == req[t]
        rid == r.result.flow_run_id
    IN  /\ rid # NoRun
        /\ ~r.result.dropped => r.payload.meta.flow_run_id = rid
        /\ r.result.segment_id \in DOMAIN pipeline_segments_by_id
        /\ pipeline_segments_by_id[r.result.segment_id].flow_run_id = rid
        /\ BucketsTouched(t) \subseteq {rid}
        /\ rid \in DOMAIN run_events_by_id
        /\ Last(run_events_by_id[rid]).run = rid

====
